---- MODULE Spec2Model ----
(***************************************************************************)
(* A model of clog: the embedded event store (schema life cycle, sessions, *)
(* log entries), and the direct-store sync push.                           *)
(*                                                                         *)
(* The module holds several specifications over disjoint groups of         *)
(* variables; each leaves the other groups unchanged:                      *)
(*   SpecSchema  Database::new / init_schema at statement granularity,     *)
(*               with crashes, plus insert_log_entry                       *)
(*   SpecSess    name-registration and log-message invocations, one at a   *)
(*               time, with the clock advancing between their steps        *)
(*   SpecSessConc  the same invocations running as overlapping processes   *)
(***************************************************************************)
EXTENDS Integers, Sequences, FiniteSets, TLC

(***************************************************************************)
(* Bounds of the model.                                                    *)
(***************************************************************************)
\* Rows a legacy (pre-v3) store holds when the model starts: 0..MaxLegacyRows.
MaxLegacyRows == 2
\* Cap on the number of log_entries rows of the local store.
MaxRows == 3
\* Ulid::new() draws from 1..MaxUlid; two draws may collide.
MaxUlid == 3
\* The clock runs from 0 to MaxNow ticks.
MaxNow == 4
\* Ticks in a second: timestamps carry fractions of a second.
TicksPerSec == 2
\* Cap on the rows of the sessions table.
MaxSessions == 2
\* Cap on the log entries written in the session specifications.
MaxLogs == 1
\* The owner pids resolved for invocations are 1..MaxPpid.
MaxPpid == 1
\* Processes that may run an invocation at the same time.
NumProcs == 2
\* Cap on the rows of log_entries in the listing specification.
MaxTbl == 2
\* The system clock of the listing specification runs over 0..MaxWall ticks.
MaxWall == 2
\* The limit argument of list_entries is drawn from 0..MaxLimit.
MaxLimit == 2
\* The origin has at most MaxDepth ancestors.
MaxDepth == 4
\* Cap on the rows of the local log_entries table in the sync specification.
MaxLocal == 3
\* Cap on the statements a device sends to the remote log_entries table.
MaxSends == 3
\* Cap on the batches of one push over the HTTP transport.
MaxBatches == 2
\* Cap on the values of last_sync_at that are told apart.
MaxSyncStamp == 3

\* SQL NULL in the event_id column, and in the device_id column.
NULL == 0
NoDevice == ""

\* ---------------------------------------------------------------- schema

\* const CURRENT_VERSION: i32 = 3
CURRENT_VERSION == 3

\* The device id that get_or_create_device_id returns on this machine.
DeviceId == "dev"

\* Ulid::new(): 48 bits of time and 80 random bits; nothing in the library
\* excludes a repeated value, so a draw is any member of the pool.
Ulids == 1..MaxUlid

RepoCols == {"repo_root", "repo_branch", "repo_commit"}
SyncCols == {"event_id", "device_id", "synced_at", "sync_attempts"}
AllCols == RepoCols \cup SyncCols

\* Indexes of the first release's schema (all on columns that release had).
BaseIdx == {"idx_ppid", "idx_timestamp", "idx_session", "idx_session_active"}
RepoIdx == {"idx_repo_root_time", "idx_repo_commit"}
SyncIdx == {"idx_event_id", "idx_device_time", "idx_sync_pending"}
AllIdx == BaseIdx \cup RepoIdx \cup SyncIdx

\* The column of log_entries an index needs besides the first release's
\* columns ("" when it needs none).
IdxCol(name) ==
  CASE name = "idx_repo_root_time" -> "repo_root"
    [] name = "idx_repo_commit" -> "repo_commit"
    [] name = "idx_event_id" -> "event_id"
    [] name = "idx_device_time" -> "device_id"
    [] name = "idx_sync_pending" -> "sync_attempts"
    [] OTHER -> ""

\* A store file.  le/sess/sync: the tables exist; cols: the columns of
\* log_entries beyond those of the first release; uniqCol: event_id was
\* declared UNIQUE in CREATE TABLE; sessDev: sessions has device_id;
\* sessRows: the device_id of each sessions row; rows: log_entries.
EmptyStore ==
  [version |-> 0, le |-> FALSE, cols |-> {}, uniqCol |-> FALSE,
   sess |-> FALSE, sessDev |-> FALSE, sessRows |-> << >>,
   sync |-> FALSE, idx |-> {}, rows |-> << >>]

LegacyRows(n) == [i \in 1..n |-> [id |-> i, event_id |-> NULL, device_id |-> NoDevice]]

\* A store written by a release before the sync columns: ver is the stamp it
\* left (0 for the release that did not stamp), cols its log_entries columns.
LegacyStore(ver, cols, idx, n) ==
  [version |-> ver, le |-> TRUE, cols |-> cols, uniqCol |-> FALSE,
   sess |-> TRUE, sessDev |-> FALSE,
   sessRows |-> IF n > 0 THEN << NoDevice >> ELSE << >>,
   sync |-> FALSE, idx |-> idx, rows |-> LegacyRows(n)]

InitialStores ==
  {EmptyStore}
  \cup {LegacyStore(0, {}, BaseIdx, n) : n \in 0..MaxLegacyRows}
  \cup {LegacyStore(1, {}, BaseIdx, n) : n \in 0..MaxLegacyRows}
  \cup {LegacyStore(2, RepoCols, BaseIdx \cup RepoIdx, n) : n \in 0..MaxLegacyRows}

Ok(s) == [ok |-> TRUE, st |-> s]
Err(s) == [ok |-> FALSE, st |-> s]

RowSet(s) == {s.rows[i] : i \in 1..Len(s.rows)}
EventIds(s) == {r.event_id : r \in RowSet(s)} \ {NULL}

\* No two rows hold the same non-null event_id.
NoDupEventIds(rows) ==
  \A i, j \in 1..Len(rows) :
    (i # j /\ rows[i].event_id # NULL) => rows[i].event_id # rows[j].event_id

\* CREATE TABLE IF NOT EXISTS log_entries (... event_id TEXT UNIQUE ...)
CreateLogEntries(s) ==
  IF s.le THEN Ok(s)
  ELSE Ok([s EXCEPT !.le = TRUE, !.cols = AllCols, !.uniqCol = TRUE])

\* CREATE TABLE IF NOT EXISTS sessions (... device_id TEXT)
CreateSessions(s) ==
  IF s.sess THEN Ok(s) ELSE Ok([s EXCEPT !.sess = TRUE, !.sessDev = TRUE])

\* CREATE TABLE IF NOT EXISTS sync_state (...)
CreateSyncState(s) == Ok([s EXCEPT !.sync = TRUE])

\* CREATE [UNIQUE] INDEX IF NOT EXISTS name ON log_entries(col, ...):
\* fails when the table or the column is missing, and a unique index fails
\* on rows that already repeat a value.
CreateIndex(s, name) ==
  IF name \in s.idx THEN Ok(s)
  ELSE IF name = "idx_session_active"
    THEN (IF s.sess THEN Ok([s EXCEPT !.idx = @ \cup {name}]) ELSE Err(s))
  ELSE IF ~s.le \/ (IdxCol(name) # "" /\ IdxCol(name) \notin s.cols) THEN Err(s)
  ELSE IF name = "idx_event_id" /\ ~NoDupEventIds(s.rows) THEN Err(s)
  ELSE Ok([s EXCEPT !.idx = @ \cup {name}])

\* ALTER TABLE log_entries ADD COLUMN col: fails on a missing table and on
\* a column that exists; the new column is NULL in every row.
AlterAddColumn(s, col) ==
  IF ~s.le \/ col \in s.cols THEN Err(s)
  ELSE Ok([s EXCEPT !.cols = @ \cup {col}])

\* PRAGMA user_version = v
Stamp(s, v) == Ok([s EXCEPT !.version = v])

\* One statement of a batch.
Exec(s, stmt) ==
  CASE stmt[1] = "log_entries" -> CreateLogEntries(s)
    [] stmt[1] = "sessions" -> CreateSessions(s)
    [] stmt[1] = "sync_state" -> CreateSyncState(s)
    [] stmt[1] = "index" -> CreateIndex(s, stmt[2])
    [] stmt[1] = "alter" -> AlterAddColumn(s, stmt[2])
    [] stmt[1] = "stamp" -> Stamp(s, stmt[2])

\* The batch of create_initial_schema.
CreateBatch ==
  << <<"log_entries">>, <<"sessions">>, <<"sync_state">>,
     <<"index", "idx_ppid">>, <<"index", "idx_timestamp">>,
     <<"index", "idx_session">>, <<"index", "idx_session_active">>,
     <<"index", "idx_repo_root_time">>, <<"index", "idx_repo_commit">>,
     <<"index", "idx_event_id">>, <<"index", "idx_device_time">>,
     <<"index", "idx_sync_pending">>, <<"stamp", CURRENT_VERSION>> >>

\* The two batches of migrate_to_v2.
V2AlterBatch ==
  << <<"alter", "repo_root">>, <<"alter", "repo_branch">>,
     <<"alter", "repo_commit">> >>

V2TailBatch ==
  << <<"index", "idx_repo_root_time">>, <<"index", "idx_repo_commit">>,
     <<"stamp", 2>> >>

\* The columns migrate_to_v3 probes and adds, in the order of the code.
V3Cols == << "event_id", "device_id", "synced_at", "sync_attempts" >>

\* The index batch of migrate_to_v3.
V3IndexBatch ==
  << <<"index", "idx_event_id">>, <<"index", "idx_device_time">>,
     <<"index", "idx_sync_pending">> >>

VARIABLES
  disk,      \* the store file as committed
  txn,       \* << >>, or << s >>: the open transaction's view of the store
  pc,        \* where Database::new stands
  ip,        \* the next statement of the batch being executed
  version,   \* init_schema's local: the user_version it read
  has,       \* migrate_to_v3's locals: has[c] for the probed columns
  colsExist, \* migrate_to_v2's local columns_exist
  live,      \* some process holds a Database whose new() returned Ok
  origin,    \* history: the store as the model started
  begun,     \* history: the committed version when the last run entered migrate_to_v3
  crashAt    \* history: where the last crash struck (pc), "" if none

schemaVars == << disk, txn, pc, ip, version, has, colsExist, live, origin, begun, crashAt >>

VARIABLES
  now,       \* the wall clock (Utc::now, SQLite's 'now'), in ticks
  sessions,  \* the rows of the sessions table, in rowid order
  logs,      \* the log entries written by handle_log_message
  hp,        \* hp[p]: the invocation running in process p
  refused    \* history: the ppids a log message of which ended in exit(1)

sessVars == << now, sessions, logs, hp, refused >>

VARIABLES
  local,      \* the device's log_entries rows as the sync engine sees them
  remote,     \* the rows of the remote log_entries table
  lastSyncAt, \* the remote sync_state.last_sync_at of this device (0: no row)
  spc,        \* where sync_push stands
  batch,      \* entries: the batch fetched by get_unsynced_entries
  bi,         \* the position of the for loop in the batch
  syncedIds,  \* synced_ids
  sent,       \* history: the event_ids sent to the remote, in order
  pushOnly,   \* the push_only argument of the last sync_push call
  failedIds   \* history: the event_ids whose upsert failed in the current pass

syncVars == << local, remote, lastSyncAt, spc, batch, bi, syncedIds, sent, pushOnly, failedIds >>

VARIABLES
  tbl,       \* the rows of log_entries as the listing queries read them
  wall,      \* the system clock (Utc::now, SQLite's 'now'), in ticks
  ret        \* the last call on the table: its arguments and what it returned

listVars == << tbl, wall, ret >>

VARIABLES
  chain,     \* the names of the origin's ancestors, the parent first
  rpc,       \* where get_ppid stands
  hop,       \* the turns of the current for loop already taken
  at,        \* check_pid, as a position in chain (0: the origin)
  res,       \* what get_ppid returned
  used,      \* the ppid run goes on with
  warned,    \* run printed the warning
  top,       \* what the parent of the last process of chain is
  lookups    \* history: the calls of process.parent() get_ppid has made

resVars == << chain, top, rpc, hop, at, res, used, warned, lookups >>

VARIABLES
  file,      \* the content of ~/.clog/device_id
  platform,  \* the platform identifier as get_platform_id would read it now
  dp         \* dp[p]: the get_or_create_device_id call running in process p

devVars == << file, platform, dp >>

VARIABLES
  hpc,        \* where a push over the HTTP transport stands
  batches,    \* batches the push has still to send
  attempt,    \* number of the attempt at the current batch
  delay,      \* the delay before the next retry, in ms
  waits,      \* the delays slept before retries of the current batch
  tries       \* the failure classes of the attempts at the current batch
httpVars == << hpc, batches, attempt, delay, waits, tries >>

VARIABLES
  stpc,        \* where handle_stream_entries stands
  filt,        \* its filters: repo_filter, args.filter, args.today, session_id
  lastId,      \* last_id
  running,     \* the AtomicBool the Ctrl+C handler clears
  newEntries,  \* the entries of new_entries not yet printed
  printed,     \* the ids of the entries printed, in the order printed
  base         \* the number of rows stored when the initial fetch ran
streamVars == << stpc, filt, lastId, running, newEntries, printed, base >>

vars == << schemaVars, sessVars, syncVars, listVars, resVars, devVars, httpVars, streamVars >>

\* The store as the running connection sees it.
View == IF txn # << >> THEN txn[1] ELSE disk

NoHas == [c \in SyncCols |-> FALSE]

InitSchemaState ==
  /\ disk \in InitialStores
  /\ origin = disk
  /\ txn = << >>
  /\ pc = "start"
  /\ ip = 1
  /\ version = 0
  /\ has = NoHas
  /\ colsExist = FALSE
  /\ live = FALSE
  /\ begun = 0
  /\ crashAt = ""

\* The schema variables of a specification that does not run Database::new.
SchemaIdle ==
  /\ disk = EmptyStore
  /\ origin = EmptyStore
  /\ txn = << >>
  /\ pc = "start"
  /\ ip = 1
  /\ version = 0
  /\ has = NoHas
  /\ colsExist = FALSE
  /\ live = FALSE
  /\ begun = 0
  /\ crashAt = ""

\* The session variables of a specification that runs no invocation.
SessIdle ==
  /\ now = 0
  /\ sessions = << >>
  /\ logs = << >>
  /\ hp = << >>
  /\ refused = {}

\* The listing variables of a specification that runs no listing.
ListIdle ==
  /\ tbl = << >>
  /\ wall = 0
  /\ ret = "idle"

\* The resolver variables of a specification that resolves no owner.
ResIdle ==
  /\ chain = << >>
  /\ top = [kind |-> "none", to |-> 0]
  /\ lookups = 0
  /\ rpc = "idle"
  /\ hop = 0
  /\ at = 0
  /\ res = 0
  /\ used = 0
  /\ warned = FALSE

\* The device-id variables of a specification that makes no call.
DevIdle ==
  /\ file = "idle"
  /\ platform = "idle"
  /\ dp = << >>

\* The HTTP-transport variables of a specification that pushes nothing
\* over HTTP.
HttpIdle ==
  /\ hpc = "idle"
  /\ batches = 0
  /\ attempt = 0
  /\ delay = 0
  /\ waits = << >>
  /\ tries = << >>

\* The streaming variables of a specification that runs no stream.
StreamIdle ==
  /\ stpc = "idle"
  /\ filt = [repo_root |-> "*", name |-> "*", session_id |-> "*", today_only |-> FALSE]
  /\ lastId = 0
  /\ running = TRUE
  /\ newEntries = << >>
  /\ printed = << >>
  /\ base = 0

\* The sync variables of a specification that runs no sync pass.
SyncIdle ==
  /\ local = << >>
  /\ remote = << >>
  /\ lastSyncAt = 0
  /\ spc = "idle"
  /\ batch = << >>
  /\ bi = 1
  /\ syncedIds = << >>
  /\ sent = << >>
  /\ pushOnly = TRUE
  /\ failedIds = {}

\* A write of the running connection: into the open transaction, else
\* straight to the file (autocommit).
SetView(s) ==
  IF txn # << >>
    THEN txn' = << s >> /\ UNCHANGED disk
    ELSE disk' = s /\ UNCHANGED txn

\* Database::new returns Err: the connection is dropped, which rolls an open
\* transaction back.
Fail ==
  /\ pc' = "failed"
  /\ ip' = 1
  /\ txn' = << >>
  /\ UNCHANGED disk

\* The next statement of a batch run by execute_batch; after the last one
\* control moves to nextpc.
RunBatch(stmts, nextpc) ==
  LET r == Exec(View, stmts[ip]) IN
  IF r.ok
    THEN /\ SetView(r.st)
         /\ IF ip < Len(stmts)
              THEN ip' = ip + 1 /\ pc' = pc
              ELSE ip' = 1 /\ pc' = nextpc
    ELSE Fail

\* Mutant of NeedsV2: the guard compares with <= CURRENT_VERSION.
NeedsV2Inclusive(v) == v <= CURRENT_VERSION

\* if version < 2 { migrate_to_v2 }
NeedsV2(v) == v < 2

\* if version < 3 { migrate_to_v3 }
NeedsV3(v) == v < CURRENT_VERSION

\* init_schema: where control goes once the steps for lower versions ran.
AfterCreate(v) ==
  IF NeedsV2(v) THEN "v2_probe" ELSE IF NeedsV3(v) THEN "v3_begin" ELSE "ready"

AfterV2(v) == IF NeedsV3(v) THEN "v3_begin" ELSE "ready"

\* Database::new, init_schema: read PRAGMA user_version and branch.
InitSchema ==
  /\ pc = "start"
  /\ version' = disk.version
  /\ pc' = IF disk.version = 0 THEN "create" ELSE AfterCreate(disk.version)
  /\ ip' = 1
  /\ live' = (live \/ pc' = "ready")
  /\ UNCHANGED << disk, txn, has, colsExist, origin, begun, crashAt >>

\* create_initial_schema: one statement of its batch, each in autocommit.
CreateInitialSchema ==
  /\ pc = "create"
  /\ RunBatch(CreateBatch, AfterCreate(version))
  /\ UNCHANGED << version, has, colsExist, live, origin, begun, crashAt >>

\* migrate_to_v2: columns_exist, probed on repo_root alone.
MigrateV2Probe ==
  /\ pc = "v2_probe"
  /\ colsExist' = (disk.le /\ "repo_root" \in disk.cols)
  /\ pc' = IF colsExist' THEN "v2_tail" ELSE "v2_alter"
  /\ ip' = 1
  /\ UNCHANGED << disk, txn, version, has, live, origin, begun, crashAt >>

\* migrate_to_v2: the three ALTER TABLE statements.
MigrateV2Alter ==
  /\ pc = "v2_alter"
  /\ RunBatch(V2AlterBatch, "v2_tail")
  /\ UNCHANGED << version, has, colsExist, live, origin, begun, crashAt >>

\* migrate_to_v2: the two indexes and PRAGMA user_version = 2.
MigrateV2Tail ==
  /\ pc = "v2_tail"
  /\ RunBatch(V2TailBatch, AfterV2(version))
  /\ UNCHANGED << version, has, colsExist, live, origin, begun, crashAt >>

\* Mutant of Begin: no transaction is opened, the statements autocommit.
BeginNothing(s) == << >>

\* migrate_to_v3: BEGIN IMMEDIATE opens the transaction.
Begin(s) == << s >>

MigrateV3Begin ==
  /\ pc = "v3_begin"
  /\ txn' = Begin(disk)
  /\ begun' = disk.version
  /\ pc' = "v3_probe"
  /\ UNCHANGED << disk, ip, version, has, colsExist, live, origin, crashAt >>

\* migrate_to_v3: the four has_* probes of pragma_table_info('log_entries').
MigrateV3Probe ==
  /\ pc = "v3_probe"
  /\ has' = [c \in SyncCols |-> View.le /\ c \in View.cols]
  /\ pc' = "v3_alter"
  /\ ip' = 1
  /\ UNCHANGED << disk, txn, version, colsExist, live, origin, begun, crashAt >>

\* migrate_to_v3: if !has_<col> { ALTER TABLE log_entries ADD COLUMN <col> },
\* for the four columns in turn.
MigrateV3Alter ==
  /\ pc = "v3_alter"
  /\ LET r == IF has[V3Cols[ip]] THEN Ok(View) ELSE AlterAddColumn(View, V3Cols[ip]) IN
     IF r.ok
       THEN /\ SetView(r.st)
            /\ IF ip < Len(V3Cols)
                 THEN ip' = ip + 1 /\ pc' = pc
                 ELSE ip' = 1 /\ pc' = "v3_sess"
       ELSE Fail
  /\ UNCHANGED << version, has, colsExist, live, origin, begun, crashAt >>

\* migrate_to_v3: sessions gets device_id when it lacks it.
AlterSessions(s) ==
  IF s.sess /\ s.sessDev THEN Ok(s)
  ELSE IF ~s.sess THEN Err(s)
  ELSE Ok([s EXCEPT !.sessDev = TRUE])

MigrateV3Sessions ==
  /\ pc = "v3_sess"
  /\ LET r == AlterSessions(View) IN
     IF r.ok THEN SetView(r.st) /\ pc' = "v3_sync_state" /\ ip' = 1 ELSE Fail
  /\ UNCHANGED << version, has, colsExist, live, origin, begun, crashAt >>

\* migrate_to_v3: CREATE TABLE IF NOT EXISTS sync_state.
MigrateV3SyncState ==
  /\ pc = "v3_sync_state"
  /\ SetView(CreateSyncState(View).st)
  /\ pc' = "v3_backfill"
  /\ UNCHANGED << ip, version, has, colsExist, live, origin, begun, crashAt >>

\* COALESCE(old, new)
Coalesce(old, new, null) == IF old # null THEN old ELSE new

\* Mutant of Backfill: the UPDATE runs for every row, whatever the probes
\* found, and overwrites event_id and device_id.
BackfillOverwrite(s, hasEventId, hasDeviceId, draw) ==
  [s EXCEPT !.rows =
    [i \in 1..Len(s.rows) |->
      [s.rows[i] EXCEPT !.event_id = draw[i], !.device_id = DeviceId]]]

\* migrate_to_v3, the backfill: when a column was missing, every row with a
\* NULL event_id or device_id, in id order, gets the ULID drawn for it and
\* the device id, each only where the row has none.  draw[i] is the value
\* Ulid::new() returns in the iteration for row i.
Backfill(s, hasEventId, hasDeviceId, draw) ==
  IF hasEventId /\ hasDeviceId THEN s
  ELSE [s EXCEPT !.rows =
         [i \in 1..Len(s.rows) |->
           IF s.rows[i].event_id = NULL \/ s.rows[i].device_id = NoDevice
             THEN [s.rows[i] EXCEPT
                     !.event_id = Coalesce(@, draw[i], NULL),
                     !.device_id = Coalesce(@, DeviceId, NoDevice)]
             ELSE s.rows[i]]]

MigrateV3Backfill ==
  /\ pc = "v3_backfill"
  /\ \E draw \in [1..Len(View.rows) -> Ulids] :
       SetView(Backfill(View, has["event_id"], has["device_id"], draw))
  /\ pc' = "v3_sess_backfill"
  /\ UNCHANGED << ip, version, has, colsExist, live, origin, begun, crashAt >>

\* UPDATE sessions SET device_id = COALESCE(device_id, ?)
BackfillSessions(s) ==
  [s EXCEPT !.sessRows =
    [i \in 1..Len(s.sessRows) |-> Coalesce(s.sessRows[i], DeviceId, NoDevice)]]

MigrateV3SessBackfill ==
  /\ pc = "v3_sess_backfill"
  /\ SetView(BackfillSessions(View))
  /\ pc' = "v3_indexes"
  /\ ip' = 1
  /\ UNCHANGED << version, has, colsExist, live, origin, begun, crashAt >>

\* migrate_to_v3: the unique index on event_id and the two sync indexes.
MigrateV3Indexes ==
  /\ pc = "v3_indexes"
  /\ RunBatch(V3IndexBatch, "v3_stamp")
  /\ UNCHANGED << version, has, colsExist, live, origin, begun, crashAt >>

\* migrate_to_v3: PRAGMA user_version = 3, inside the transaction.
MigrateV3Stamp ==
  /\ pc = "v3_stamp"
  /\ SetView(Stamp(View, CURRENT_VERSION).st)
  /\ pc' = "v3_commit"
  /\ UNCHANGED << ip, version, has, colsExist, live, origin, begun, crashAt >>

\* migrate_to_v3: COMMIT; init_schema and Database::new return Ok.
MigrateV3Commit ==
  /\ pc = "v3_commit"
  /\ disk' = View
  /\ txn' = << >>
  /\ pc' = "ready"
  /\ live' = TRUE
  /\ UNCHANGED << ip, version, has, colsExist, origin, begun, crashAt >>

\* The labels at which Database::new is running.
Running ==
  {"create", "v2_probe", "v2_alter", "v2_tail", "v3_begin", "v3_probe",
   "v3_alter", "v3_sess", "v3_sync_state", "v3_backfill", "v3_sess_backfill",
   "v3_indexes", "v3_stamp", "v3_commit"}

\* The labels of migrate_to_v3 after BEGIN IMMEDIATE.
InV3 == Running \ {"create", "v2_probe", "v2_alter", "v2_tail", "v3_begin"}

\* The process dies (kill, power loss) between two statements; SQLite rolls
\* the open transaction back when the file is next opened.
Crash ==
  /\ pc \in Running
  /\ crashAt' = pc
  /\ pc' = "down"
  /\ ip' = 1
  /\ txn' = << >>
  /\ UNCHANGED << disk, version, has, colsExist, live, origin, begun >>

\* The next invocation calls Database::new.
Reopen ==
  /\ pc \in {"down", "failed", "ready"}
  /\ pc' = "start"
  /\ ip' = 1
  /\ UNCHANGED << disk, txn, version, has, colsExist, live, origin, begun, crashAt >>

\* Another invocation's Database::new finds version 3 and returns at once.
OtherOpen ==
  /\ ~live
  /\ txn = << >>
  /\ disk.version = CURRENT_VERSION
  /\ live' = TRUE
  /\ UNCHANGED << disk, txn, pc, ip, version, has, colsExist, origin, begun, crashAt >>

\* Mutant of UniqueEventId: the column and the index are not unique.
NotUniqueEventId(s) == FALSE

\* event_id is under a uniqueness constraint: the column's UNIQUE of
\* CREATE TABLE, or the unique index idx_event_id.
UniqueEventId(s) == s.uniqCol \/ "idx_event_id" \in s.idx

\* Mutant of InsertRow: INSERT OR REPLACE, a row holding the event_id is
\* deleted to make room for the new one.
InsertRowReplace(s, ulid) ==
  IF ~s.le \/ ~((RepoCols \cup {"event_id", "device_id"}) \subseteq s.cols) THEN Err(s)
  ELSE LET Other(row) == row.event_id # ulid
           kept == IF UniqueEventId(s) THEN SelectSeq(s.rows, Other) ELSE s.rows
       IN  Ok([s EXCEPT !.rows = Append(kept,
                 [id |-> Len(s.rows) + 1, event_id |-> ulid, device_id |-> DeviceId])])

\* insert_log_entry with ulid the value of Ulid::new(): the INSERT names the
\* repository columns, event_id and device_id, and the store assigns the id.
InsertRow(s, ulid) ==
  IF ~s.le \/ ~((RepoCols \cup {"event_id", "device_id"}) \subseteq s.cols) THEN Err(s)
  ELSE IF UniqueEventId(s) /\ ulid \in EventIds(s) THEN Err(s)
  ELSE Ok([s EXCEPT !.rows = Append(@,
            [id |-> Len(@) + 1, event_id |-> ulid, device_id |-> DeviceId])])

\* insert_log_entry by a process whose Database::new returned Ok; while a
\* migration holds the write lock the INSERT fails (busy).
InsertLogEntry ==
  /\ live
  /\ txn = << >>
  /\ Len(disk.rows) < MaxRows
  /\ \E ulid \in Ulids : disk' = InsertRow(disk, ulid).st
  /\ UNCHANGED << txn, pc, ip, version, has, colsExist, live, origin, begun, crashAt >>

OtherThanSchema == << sessVars, syncVars, listVars, resVars, devVars, httpVars, streamVars >>

NextSchema ==
  \/ InitSchema /\ UNCHANGED OtherThanSchema
  \/ CreateInitialSchema /\ UNCHANGED OtherThanSchema
  \/ MigrateV2Probe /\ UNCHANGED OtherThanSchema
  \/ MigrateV2Alter /\ UNCHANGED OtherThanSchema
  \/ MigrateV2Tail /\ UNCHANGED OtherThanSchema
  \/ MigrateV3Begin /\ UNCHANGED OtherThanSchema
  \/ MigrateV3Probe /\ UNCHANGED OtherThanSchema
  \/ MigrateV3Alter /\ UNCHANGED OtherThanSchema
  \/ MigrateV3Sessions /\ UNCHANGED OtherThanSchema
  \/ MigrateV3SyncState /\ UNCHANGED OtherThanSchema
  \/ MigrateV3Backfill /\ UNCHANGED OtherThanSchema
  \/ MigrateV3SessBackfill /\ UNCHANGED OtherThanSchema
  \/ MigrateV3Indexes /\ UNCHANGED OtherThanSchema
  \/ MigrateV3Stamp /\ UNCHANGED OtherThanSchema
  \/ MigrateV3Commit /\ UNCHANGED OtherThanSchema
  \/ Crash /\ UNCHANGED OtherThanSchema
  \/ Reopen /\ UNCHANGED OtherThanSchema
  \/ OtherOpen /\ UNCHANGED OtherThanSchema
  \/ InsertLogEntry /\ UNCHANGED OtherThanSchema

InitSpecSchema == InitSchemaState /\ SessIdle /\ SyncIdle /\ ListIdle /\ ResIdle /\ DevIdle /\ HttpIdle /\ StreamIdle

SpecSchema == InitSpecSchema /\ [][NextSchema]_vars

(***************************************************************************)
(* Claims about the schema life cycle and event_id, under SpecSchema.      *)
(***************************************************************************)

\* C3: in every state reached by runs of schema initialisation (migrations
\* included) and insert_log_entry calls, no two rows of the local
\* log_entries table hold the same event_id.
C3_LocalEventIdsUnique == NoDupEventIds(disk.rows)

\* A migrated store (its legacy rows backfilled) that has taken inserts.
C3_Witness ==
  /\ Len(origin.rows) >= 1
  /\ Len(disk.rows) > Len(origin.rows)
  /\ \A i \in 1..Len(disk.rows) : disk.rows[i].event_id # NULL

\* C4: a committed row that has an event_id keeps it in every later step
\* (inserts of other rows, the v3 backfill, crashes and reopenings).
C4_EventIdImmutable ==
  [][\A i \in 1..Len(disk.rows) :
       (disk.rows[i].event_id # NULL /\ i <= Len(disk'.rows))
         => disk'.rows[i].event_id = disk.rows[i].event_id]_vars

\* migrate_to_v3 is about to commit over a row that had an event_id before
\* the migration began.
C4_Witness ==
  /\ pc = "v3_commit"
  /\ Len(disk.rows) >= 1
  /\ disk.rows[1].event_id # NULL
  /\ View.rows[1].event_id = disk.rows[1].event_id

\* The rows 1..n of s have pairwise distinct non-null event_ids and the
\* device id.
Backfilled(s, n) ==
  /\ Len(s.rows) >= n
  /\ \A i \in 1..n : s.rows[i].event_id # NULL /\ s.rows[i].device_id = DeviceId
  /\ \A i, j \in 1..n : i # j => s.rows[i].event_id # s.rows[j].event_id

FullSchema(s) ==
  /\ s.version = CURRENT_VERSION
  /\ s.le /\ s.sess /\ s.sync
  /\ s.cols = AllCols
  /\ AllIdx \subseteq s.idx

\* C5: initialising a store stamped 0, 1 or 2 that holds N rows lacking
\* event_id succeeds (an uninterrupted Database::new does not fail) and ends
\* at version 3 with those N rows, each with a distinct non-null event_id
\* and the device id.
C5_MigrationSucceeds ==
  Len(origin.rows) >= 1 =>
    /\ (crashAt = "" => pc # "failed")
    /\ (pc = "ready" =>
          disk.version = CURRENT_VERSION /\ Backfilled(disk, Len(origin.rows)))

\* C6: whenever the stored version reads 3, log_entries has all the v3
\* columns and every row has an event_id and a device_id; and after a crash
\* inside migrate_to_v3 the stored version is the one it had when the
\* migration began.
C6_VersionThreeIsComplete ==
  /\ (disk.version = CURRENT_VERSION =>
        /\ disk.le
        /\ AllCols \subseteq disk.cols
        /\ \A i \in 1..Len(disk.rows) :
             disk.rows[i].event_id # NULL /\ disk.rows[i].device_id # NoDevice)
  /\ ((pc = "down" /\ crashAt \in InV3) => disk.version = begun)

\* A crash between the version stamp and COMMIT of a migration that had
\* backfilled a row.
C6_Witness ==
  /\ pc = "down"
  /\ crashAt = "v3_commit"
  /\ Len(disk.rows) >= 1
  /\ disk.version = 2

\* C7: schema initialisation of a store at version 3 changes nothing (no
\* row, column, index or stamp) and returns.
C7_InitAtCurrentIsNoOp ==
  [][(InitSchema /\ disk.version = CURRENT_VERSION)
       => (disk' = disk /\ txn' = txn /\ pc' = "ready")]_vars

\* A new invocation is about to initialise a version 3 store holding rows.
C7_Witness ==
  /\ pc = "start"
  /\ disk.version = CURRENT_VERSION
  /\ Len(disk.rows) >= 1

\* C8: after an interruption between two statements of migrate_to_v2 or
\* migrate_to_v3, a later Database::new does not fail, and when it returns
\* the store is at version 3 with the full schema.
C8_RerunAfterInterruption ==
  (crashAt \in Running \ {"create"}) =>
    /\ pc # "failed"
    /\ (pc = "ready" => FullSchema(disk))

\* C13 (under SpecSchema): a step of insert_log_entry that changes the store
\* adds exactly one log_entries row, after the existing ones and with an id
\* greater than every id present, and leaves every existing log_entries row,
\* every sessions row and the schema as they were.
C13_InsertAddsOneRow ==
  [][InsertLogEntry =>
       /\ Len(disk'.rows) = Len(disk.rows) + 1
       /\ \A i \in 1..Len(disk.rows) :
            /\ disk'.rows[i] = disk.rows[i]
            /\ disk'.rows[Len(disk'.rows)].id > disk.rows[i].id
       /\ disk'.sessRows = disk.sessRows
       /\ [disk' EXCEPT !.rows = disk.rows] = disk]_vars

\* A migrated store with a sessions row, whose last log_entries row was
\* inserted after the migration, next to the rows the migration backfilled.
C13_Witness ==
  /\ pc = "ready"
  /\ Len(origin.rows) >= 1
  /\ Len(disk.sessRows) >= 1
  /\ Len(disk.rows) = Len(origin.rows) + 1
  /\ disk.rows[Len(disk.rows)].device_id = DeviceId
  /\ disk.rows[Len(disk.rows)].id = Len(disk.rows)

\* -------------------------------------------------------------- sessions

Ppids == 1..MaxPpid
Procs == 1..NumProcs

\* The names given to --name.
Names == {"ann"}

\* A NULL name.
NoName == ""

\* datetime(x): the timestamp cut to whole seconds.
Sec(t) == t \div TicksPerSec

\* The '-24 hours' of get_active_session, scaled to the model's clock.
WindowSecs == 2

\* Mutant of Qualifies: the comparison is against datetime('now'), the
\* '-24 hours' modifier is lost.
QualifiesNoWindow(s, ppid, t) ==
  s.ppid = ppid /\ s.is_active /\ Sec(s.last_seen) > Sec(t)

\* WHERE ppid = ? AND is_active = 1
\*   AND datetime(last_seen) > datetime('now', '-24 hours')
Qualifies(s, ppid, t) ==
  s.ppid = ppid /\ s.is_active /\ Sec(s.last_seen) > Sec(t) - WindowSecs

\* get_active_session: query_row takes the first row the SELECT yields, and
\* the SELECT has no ORDER BY, so it may be any qualifying row.  The result
\* is the set of rowids it can return, {0} when it returns None.
GetActiveSessionResults(rows, ppid, t) ==
  LET q == {i \in 1..Len(rows) : Qualifies(rows[i], ppid, t)} IN
  IF q = {} THEN {0} ELSE q

\* No invocation: the process slot is free.
Idle == [pc |-> "idle", ppid |-> 0, sid |-> << >>, name |-> NoName, out |-> ""]

InitSess ==
  /\ now = 0
  /\ sessions = << >>
  /\ logs = << >>
  /\ hp = [p \in Procs |-> Idle]
  /\ refused = {}

\* An invocation may start in a free process; when serial, only if no other
\* is running (the invocations then all run in the first slot).
MayStart(p, serial) ==
  /\ hp[p].pc = "idle"
  /\ serial => (p = 1 /\ \A q \in Procs : hp[q].pc = "idle")

\* run: clog --name <name>, with the owner pid resolved to ppid.
StartNameRegistration(p, ppid, serial) ==
  /\ MayStart(p, serial)
  /\ hp' = [hp EXCEPT ![p] = [Idle EXCEPT !.pc = "reg_query", !.ppid = ppid]]
  /\ UNCHANGED << now, sessions, logs, refused >>

\* run: clog <message>, with the owner pid resolved to ppid.
StartLogMessage(p, ppid, serial) ==
  /\ MayStart(p, serial)
  /\ Len(logs) < MaxLogs
  /\ hp' = [hp EXCEPT ![p] = [Idle EXCEPT !.pc = "log_query", !.ppid = ppid]]
  /\ UNCHANGED << now, sessions, logs, refused >>

\* Mutant of GetActiveSession: a log message that finds no active session is
\* logged all the same, under an empty session id.
GetActiveSessionLenient(p) ==
  /\ hp[p].pc \in {"reg_query", "log_query"}
  /\ \E r \in GetActiveSessionResults(sessions, hp[p].ppid, now) :
       hp' = [hp EXCEPT ![p] =
         IF r # 0
           THEN [@ EXCEPT !.sid = sessions[r].session_id,
                          !.name = sessions[r].name,
                          !.pc = IF @ = "reg_query" THEN "reg_update" ELSE "log_touch"]
         ELSE IF hp[p].pc = "reg_query"
           THEN [@ EXCEPT !.pc = "reg_create"]
           ELSE [@ EXCEPT !.pc = "log_insert"]]
  /\ refused' = refused
  /\ UNCHANGED << now, sessions, logs >>

\* handle_name_registration / handle_log_message: db.get_active_session(ppid)
\* and the branch on its result.
GetActiveSession(p) ==
  /\ hp[p].pc \in {"reg_query", "log_query"}
  /\ \E r \in GetActiveSessionResults(sessions, hp[p].ppid, now) :
       hp' = [hp EXCEPT ![p] =
         IF r # 0
           THEN [@ EXCEPT !.sid = sessions[r].session_id,
                          !.name = sessions[r].name,
                          !.pc = IF @ = "reg_query" THEN "reg_update" ELSE "log_touch"]
         ELSE IF hp[p].pc = "reg_query"
           THEN [@ EXCEPT !.pc = "reg_create"]
           ELSE [Idle EXCEPT !.out = "exit1"]]
  /\ refused' = IF hp[p].pc = "log_query" /\ hp'[p].out = "exit1"
                THEN refused \cup {hp[p].ppid} ELSE refused
  /\ UNCHANGED << now, sessions, logs >>

\* format!("{}_{}", ppid, now.timestamp())
SessionId(ppid, t) == << ppid, Sec(t) >>

\* Mutant of CreateSession: the new row replaces the rows of the same ppid
\* (DELETE .. WHERE ppid = ? before the INSERT).
CreateSessionReplace(p) ==
  /\ hp[p].pc = "reg_create"
  /\ Len(sessions) < MaxSessions
  /\ LET sid == SessionId(hp[p].ppid, now)
         OtherPpid(s) == s.ppid # hp[p].ppid
     IN  /\ sessions' = Append(SelectSeq(sessions, OtherPpid),
                 [session_id |-> sid, ppid |-> hp[p].ppid, name |-> NoName,
                  first_seen |-> now, last_seen |-> now, is_active |-> TRUE])
         /\ hp' = [hp EXCEPT ![p].sid = sid, ![p].pc = "reg_update"]
  /\ UNCHANGED << now, logs, refused >>

\* create_session: INSERT INTO sessions; session_id is the PRIMARY KEY, so
\* the INSERT fails when the id exists.
CreateSession(p) ==
  /\ hp[p].pc = "reg_create"
  /\ Len(sessions) < MaxSessions
  /\ LET sid == SessionId(hp[p].ppid, now) IN
     IF \E i \in 1..Len(sessions) : sessions[i].session_id = sid
       THEN /\ hp' = [hp EXCEPT ![p] = [Idle EXCEPT !.out = "err"]]
            /\ UNCHANGED sessions
       ELSE /\ sessions' = Append(sessions,
                 [session_id |-> sid, ppid |-> hp[p].ppid, name |-> NoName,
                  first_seen |-> now, last_seen |-> now, is_active |-> TRUE])
            /\ hp' = [hp EXCEPT ![p].sid = sid, ![p].pc = "reg_update"]
  /\ UNCHANGED << now, logs, refused >>

\* update_session_name: UPDATE sessions SET name = ?, last_seen = ?
\* WHERE session_id = ?; then handle_name_registration returns.
UpdateSessionName(p) ==
  /\ hp[p].pc = "reg_update"
  /\ \E name \in Names :
       sessions' = [i \in 1..Len(sessions) |->
         IF sessions[i].session_id = hp[p].sid
           THEN [sessions[i] EXCEPT !.name = name, !.last_seen = now]
           ELSE sessions[i]]
  /\ hp' = [hp EXCEPT ![p] = [Idle EXCEPT !.out = "ok"]]
  /\ UNCHANGED << now, logs, refused >>

\* update_session_last_seen: UPDATE sessions SET last_seen = ?
\* WHERE session_id = ?
UpdateSessionLastSeen(p) ==
  /\ hp[p].pc = "log_touch"
  /\ sessions' = [i \in 1..Len(sessions) |->
       IF sessions[i].session_id = hp[p].sid
         THEN [sessions[i] EXCEPT !.last_seen = now]
         ELSE sessions[i]]
  /\ hp' = [hp EXCEPT ![p].pc = "log_insert"]
  /\ UNCHANGED << now, logs, refused >>

\* handle_log_message: the entry carries the session id and the name read
\* by get_active_session; insert_log_entry appends it.
LogMessageInsert(p) ==
  /\ hp[p].pc = "log_insert"
  /\ logs' = Append(logs,
       [ppid |-> hp[p].ppid, session_id |-> hp[p].sid, name |-> hp[p].name])
  /\ hp' = [hp EXCEPT ![p] = [Idle EXCEPT !.out = "ok"]]
  /\ UNCHANGED << now, sessions, refused >>

\* Time passes.
Tick ==
  /\ now < MaxNow
  /\ now' = now + 1
  /\ UNCHANGED << sessions, logs, hp, refused >>

OtherThanSess == << schemaVars, syncVars, listVars, resVars, devVars, httpVars, streamVars >>

\* Invocations one at a time (no two overlap).
NextSess ==
  \/ \E p \in Procs, ppid \in Ppids :
       StartNameRegistration(p, ppid, TRUE) /\ UNCHANGED OtherThanSess
  \/ \E p \in Procs, ppid \in Ppids :
       StartLogMessage(p, ppid, TRUE) /\ UNCHANGED OtherThanSess
  \/ \E p \in Procs : GetActiveSession(p) /\ UNCHANGED OtherThanSess
  \/ \E p \in Procs : CreateSession(p) /\ UNCHANGED OtherThanSess
  \/ \E p \in Procs : UpdateSessionName(p) /\ UNCHANGED OtherThanSess
  \/ \E p \in Procs : UpdateSessionLastSeen(p) /\ UNCHANGED OtherThanSess
  \/ \E p \in Procs : LogMessageInsert(p) /\ UNCHANGED OtherThanSess
  \/ Tick /\ UNCHANGED OtherThanSess

\* Invocations as separate processes whose steps interleave.
NextSessConc ==
  \/ \E p \in Procs, ppid \in Ppids :
       StartNameRegistration(p, ppid, FALSE) /\ UNCHANGED OtherThanSess
  \/ \E p \in Procs, ppid \in Ppids :
       StartLogMessage(p, ppid, FALSE) /\ UNCHANGED OtherThanSess
  \/ \E p \in Procs : GetActiveSession(p) /\ UNCHANGED OtherThanSess
  \/ \E p \in Procs : CreateSession(p) /\ UNCHANGED OtherThanSess
  \/ \E p \in Procs : UpdateSessionName(p) /\ UNCHANGED OtherThanSess
  \/ \E p \in Procs : UpdateSessionLastSeen(p) /\ UNCHANGED OtherThanSess
  \/ \E p \in Procs : LogMessageInsert(p) /\ UNCHANGED OtherThanSess
  \/ Tick /\ UNCHANGED OtherThanSess

InitSpecSess == InitSess /\ SchemaIdle /\ SyncIdle /\ ListIdle /\ ResIdle /\ DevIdle /\ HttpIdle /\ StreamIdle

SpecSess == InitSpecSess /\ [][NextSess]_vars

SpecSessConc == InitSpecSess /\ [][NextSessConc]_vars

(***************************************************************************)
(* Claims about sessions.                                                   *)
(***************************************************************************)

\* The 24 hours of the claims, on the model's clock, in ticks.
WindowTicks == WindowSecs * TicksPerSec

\* is_active, and last_seen strictly more recent than 24 hours before t.
ActiveWithin24h(s, ppid, t) ==
  s.ppid = ppid /\ s.is_active /\ s.last_seen > t - WindowTicks

\* is_active, and last_seen cut to whole seconds strictly later than t cut
\* to whole seconds, less 24 hours.
ActiveWithin24hWholeSeconds(s, ppid, t) ==
  s.ppid = ppid /\ s.is_active /\ (s.last_seen \div TicksPerSec) > (t \div TicksPerSec) - WindowSecs

AllIdle == \A p \in Procs : hp[p].pc = "idle"

\* C9 (its last clause, under SpecSessConc): when get_active_session(ppid)
\* returns a session, it is the most recent of the sessions of ppid that are
\* is_active with last_seen strictly more recent than 24 hours before now.
C9_ReturnsMostRecent ==
  \A ppid \in Ppids :
    \A r \in GetActiveSessionResults(sessions, ppid, now) \ {0} :
      \A i \in 1..Len(sessions) :
        ActiveWithin24h(sessions[i], ppid, now)
          => sessions[i].last_seen <= sessions[r].last_seen

\* C10 as claimed (under SpecSess): between non-overlapping invocations,
\* each ppid has at most one session that is is_active with last_seen within
\* the last 24 hours.
C10_AtMostOneActiveExact ==
  AllIdle =>
    \A ppid \in Ppids :
      Cardinality({i \in 1..Len(sessions) :
                    ActiveWithin24h(sessions[i], ppid, now)}) <= 1

\* C10 as amended (under SpecSess): at every step of non-overlapping
\* invocations, each ppid has at most one session that is is_active with
\* last_seen, cut to whole seconds, later than now, cut to whole seconds,
\* less 24 hours (the window as get_active_session compares it).
C10_AtMostOneActive ==
  \A ppid \in Ppids :
    Cardinality({i \in 1..Len(sessions) :
                  ActiveWithin24hWholeSeconds(sessions[i], ppid, now)}) <= 1

\* A ppid whose session expired and was superseded by a new one.
C10_Witness ==
  /\ AllIdle
  /\ \E i, j \in 1..Len(sessions) :
       /\ i # j
       /\ sessions[i].ppid = sessions[j].ppid
       /\ ~ActiveWithin24hWholeSeconds(sessions[i], sessions[i].ppid, now)
       /\ ActiveWithin24hWholeSeconds(sessions[j], sessions[j].ppid, now)

\* The session of ppid created last (0 when there is none).
LatestOf(ppid) ==
  LET S == {i \in 1..Len(sessions) : sessions[i].ppid = ppid}
  IN  IF S = {} THEN 0 ELSE CHOOSE i \in S : \A j \in S : j <= i

\* C34 (under SpecSess): a log message for a ppid with no active session
\* (none, or none with last_seen within 24 hours by the exact clock or by the
\* whole-second comparison of the query) ends in exit(1) and leaves the
\* sessions and the log entries as they were; a log message for a ppid whose
\* latest session, created by a name registration, is within 24 hours goes
\* on to its insert; and every entry logged carries the id of the latest
\* session created for its ppid and that session's name.
C34_RefusedUntilRegistered ==
  /\ [][\A p \in Procs :
          (hp[p].pc = "log_query" /\ hp'[p] # hp[p]) =>
            LET ppid == hp[p].ppid
                k    == LatestOf(ppid)
                none == \/ \A i \in 1..Len(sessions) :
                             ~ActiveWithin24h(sessions[i], ppid, now)
                        \/ \A i \in 1..Len(sessions) :
                             ~ActiveWithin24hWholeSeconds(sessions[i], ppid, now)
            IN  /\ none => /\ hp'[p] = [Idle EXCEPT !.out = "exit1"]
                           /\ sessions' = sessions
                           /\ logs' = logs
                /\ (k # 0 /\ ActiveWithin24hWholeSeconds(sessions[k], ppid, now))
                     => /\ hp'[p].pc = "log_touch"
                        /\ hp'[p].sid = sessions[k].session_id]_vars
  /\ [][logs' # logs =>
          LET e == logs'[Len(logs')]
              k == LatestOf(e.ppid)
          IN  /\ Len(logs') = Len(logs) + 1
              /\ k # 0
              /\ e.session_id = sessions[k].session_id
              /\ e.name = sessions[k].name
              /\ e.name \in Names]_vars

\* A log message for ppid 1 was refused when no session existed; a name
\* registration then created the session, and the next log message was
\* logged under it.
C34_Witness ==
  /\ AllIdle
  /\ 1 \in refused
  /\ Len(sessions) = 1
  /\ Len(logs) = 1
  /\ logs[1].ppid = 1
  /\ logs[1].session_id = sessions[1].session_id
  /\ sessions[1].ppid = 1

\* C32 (under SpecSessConc): when invocations run as separate processes and
\* their steps interleave, then once they have all returned, each ppid has
\* at most one session that is is_active with last_seen within the last 24
\* hours (by the whole-second comparison of get_active_session, which every
\* session within 24 hours by the exact clock of the claim also passes or
\* misses by less than a second).
C32_AtMostOneActiveInterleaved ==
  AllIdle =>
    \A ppid \in Ppids :
      \A i, j \in 1..Len(sessions) :
        (/\ ActiveWithin24hWholeSeconds(sessions[i], ppid, now)
         /\ ActiveWithin24hWholeSeconds(sessions[j], ppid, now)) => i = j

\* C11 (under SpecSess): no step deletes a sessions row or changes the
\* session_id, ppid, first_seen or is_active of an existing row; the table
\* changes its rows only by one new row appended after the existing ones.
C11_SessionsOnlyAdded ==
  [][/\ Len(sessions') \in {Len(sessions), Len(sessions) + 1}
     /\ \A i \in 1..Len(sessions) :
          /\ sessions'[i].session_id = sessions[i].session_id
          /\ sessions'[i].ppid = sessions[i].ppid
          /\ sessions'[i].first_seen = sessions[i].first_seen
          /\ sessions'[i].is_active = sessions[i].is_active]_vars

\* An expired session, named and touched after its creation, and the session
\* of the same ppid created after it.
C11_Witness ==
  /\ Len(sessions) = 2
  /\ sessions[1].ppid = sessions[2].ppid
  /\ sessions[1].name # NoName
  /\ sessions[1].last_seen > sessions[1].first_seen
  /\ sessions[2].first_seen > sessions[1].last_seen

(***************************************************************************)
(* Listing: insert_log_entry, list_entries and list_entries_since on the    *)
(* log_entries table.  A row carries the columns the queries read: id,      *)
(* timestamp, repo_root, name, session_id.  timestamp is stored as the      *)
(* RFC 3339 text of a UTC instant; texts of UTC instants compare as the     *)
(* instants do, so the model orders timestamps as numbers.                  *)
(***************************************************************************)

\* date(x): the day of a timestamp.
TicksPerDay == 2
Day(t) == t \div TicksPerDay

\* A filter argument that is None.
Absent == "*"

\* The entries logged: (repo_root, name, session_id) such that for any two
\* of the filters below there are entries passing both, either and neither.
EntryKinds ==
  { [repo_root |-> "/repo/a", name |-> "ann",  session_id |-> "s1"],
    [repo_root |-> "/repo/a", name |-> NoName, session_id |-> "s2"],
    [repo_root |-> "/repo/b", name |-> "ann",  session_id |-> "s2"],
    [repo_root |-> "/repo/b", name |-> NoName, session_id |-> "s1"] }

\* The arguments repo_root, filter_name, today_only, session_id.
Filters ==
  [repo_root : {Absent, "/repo/a"}, name : {Absent, "ann"},
   session_id : {Absent, "s1"}, today_only : BOOLEAN]

NoFilter ==
  [repo_root |-> Absent, name |-> Absent, session_id |-> Absent,
   today_only |-> FALSE]

\* Mutant of Matches: the supplied filters are combined with OR.
MatchesAny(row, f, t) ==
  \/ f = NoFilter
  \/ (f.repo_root # Absent /\ row.repo_root = f.repo_root)
  \/ (f.name # Absent /\ row.name = f.name)
  \/ (f.session_id # Absent /\ row.session_id = f.session_id)
  \/ (f.today_only /\ Day(row.timestamp) = Day(t))

\* WHERE 1=1 [AND repo_root = ?] [AND name = ?] [AND session_id = ?]
\*   [AND date(timestamp) = date('now')]
Matches(row, f, t) ==
  /\ f.repo_root # Absent => row.repo_root = f.repo_root
  /\ f.name # Absent => row.name = f.name
  /\ f.session_id # Absent => row.session_id = f.session_id
  /\ f.today_only => Day(row.timestamp) = Day(t)

\* ORDER BY timestamp DESC LIMIT n over the rows at positions S: the next
\* row is any one of the greatest timestamp left (SQL leaves the order of
\* equal keys open).
RECURSIVE TakeNewest(_, _, _)
TakeNewest(rows, S, n) ==
  IF n = 0 \/ S = {} THEN { << >> }
  ELSE UNION { { << rows[i] >> \o r : r \in TakeNewest(rows, S \ {i}, n - 1) } :
               i \in {j \in S : \A k \in S : rows[k].timestamp <= rows[j].timestamp} }

\* list_entries(limit, repo_root, filter_name, today_only, session_id): the
\* set of vectors the query can return at time t.
ListEntriesResults(rows, limit, f, t) ==
  TakeNewest(rows, {i \in 1..Len(rows) : Matches(rows[i], f, t)}, limit)

\* Mutant of ListEntriesSince: the cursor is compared with >=.
ListEntriesSinceInclusive(rows, last_id, f, t) ==
  LET Keep(row) == row.id >= last_id /\ Matches(row, f, t)
  IN  SelectSeq(rows, Keep)

\* list_entries_since(last_id, ..): WHERE id > ? [AND ..] ORDER BY id ASC;
\* rows is in id order.
ListEntriesSince(rows, last_id, f, t) ==
  LET Keep(row) == row.id > last_id /\ Matches(row, f, t)
  IN  SelectSeq(rows, Keep)

\* No call in progress.
NoCall == [op |-> "none", limit |-> 0, last_id |-> 0, f |-> NoFilter, rows |-> << >>]

InitList ==
  /\ tbl = << >>
  /\ wall = 0
  /\ ret = NoCall

\* handle_log_message builds the entry with timestamp: Utc::now() and calls
\* insert_log_entry; id is AUTOINCREMENT, one more than the greatest so far.
InsertEntry ==
  /\ ret = NoCall
  /\ Len(tbl) < MaxTbl
  /\ \E e \in EntryKinds :
       LET row == [id |-> Len(tbl) + 1, timestamp |-> wall,
                   repo_root |-> e.repo_root, name |-> e.name,
                   session_id |-> e.session_id]
       IN  /\ tbl' = Append(tbl, row)
           /\ ret' = [NoCall EXCEPT !.op = "insert", !.rows = << row >>]
  /\ UNCHANGED wall

\* db.list_entries(limit, ..)
ListEntries ==
  /\ ret = NoCall
  /\ \E limit \in 0..MaxLimit, f \in Filters :
       \E r \in ListEntriesResults(tbl, limit, f, wall) :
         ret' = [NoCall EXCEPT !.op = "list", !.limit = limit, !.f = f, !.rows = r]
  /\ UNCHANGED << tbl, wall >>

\* db.list_entries_since(last_id, ..)
ListEntriesSinceCall ==
  /\ ret = NoCall
  /\ \E last_id \in 0..MaxTbl, f \in Filters :
       ret' = [NoCall EXCEPT !.op = "since", !.last_id = last_id, !.f = f,
                             !.rows = ListEntriesSince(tbl, last_id, f, wall)]
  /\ UNCHANGED << tbl, wall >>

\* Time passes.
ClockTick ==
  /\ ret = NoCall
  /\ wall < MaxWall
  /\ wall' = wall + 1
  /\ UNCHANGED << tbl, ret >>

\* The system clock is set back (Utc::now is the wall clock, not monotonic).
ClockSetBack ==
  /\ ret = NoCall
  /\ wall > 0
  /\ wall' = wall - 1
  /\ UNCHANGED << tbl, ret >>

\* The call returns to its caller, which is done with the result.
Return ==
  /\ ret # NoCall
  /\ ret' = NoCall
  /\ UNCHANGED << tbl, wall >>

OtherThanList == << schemaVars, sessVars, syncVars, resVars, devVars, httpVars, streamVars >>

NextList ==
  \/ InsertEntry /\ UNCHANGED OtherThanList
  \/ ListEntries /\ UNCHANGED OtherThanList
  \/ ListEntriesSinceCall /\ UNCHANGED OtherThanList
  \/ ClockTick /\ UNCHANGED OtherThanList
  \/ ClockSetBack /\ UNCHANGED OtherThanList
  \/ Return /\ UNCHANGED OtherThanList

InitSpecList == InitList /\ SchemaIdle /\ SessIdle /\ SyncIdle /\ ResIdle /\ DevIdle /\ HttpIdle /\ StreamIdle

SpecList == InitSpecList /\ [][NextList]_vars

(***************************************************************************)
(* Claims about listing.                                                    *)
(***************************************************************************)

\* The row passes every supplied filter, today meaning the day of t.
Passes(row, f, t) ==
  /\ (f.repo_root = Absent \/ row.repo_root = f.repo_root)
  /\ (f.name = Absent \/ row.name = f.name)
  /\ (f.session_id = Absent \/ row.session_id = f.session_id)
  /\ (~f.today_only \/ row.timestamp \div TicksPerDay = t \div TicksPerDay)

InRet(row) == \E j \in 1..Len(ret.rows) : ret.rows[j] = row

Min(a, b) == IF a < b THEN a ELSE b

\* C12 (under SpecList): right after insert_log_entry(entry) returned,
\* list_entries(1) with no filters returns exactly the row just inserted,
\* whatever the store held before.
C12_InsertThenListReturnsEntry ==
  ret.op = "insert" => ListEntriesResults(tbl, 1, NoFilter, wall) = {ret.rows}

\* C14 (under SpecList): list_entries returns min(limit, k) distinct rows of
\* the k rows passing every supplied filter, newest first by timestamp, and
\* no passing row left out is newer than a returned one; with repo_root = R
\* every returned row has repo_root R.
C14_ListEntriesNewest ==
  ret.op = "list" =>
    LET r == ret.rows
        k == Cardinality({i \in 1..Len(tbl) : Passes(tbl[i], ret.f, wall)})
    IN  /\ Len(r) = Min(ret.limit, k)
        /\ \A j \in 1..Len(r) :
             /\ r[j].id \in 1..Len(tbl) /\ tbl[r[j].id] = r[j]
             /\ Passes(r[j], ret.f, wall)
             /\ ret.f.repo_root # Absent => r[j].repo_root = ret.f.repo_root
        /\ \A i, j \in 1..Len(r) : i < j =>
             r[i].id # r[j].id /\ r[i].timestamp >= r[j].timestamp
        /\ \A i \in 1..Len(tbl) :
             (Passes(tbl[i], ret.f, wall) /\ ~InRet(tbl[i])) =>
               \A j \in 1..Len(r) : tbl[i].timestamp <= r[j].timestamp

\* Two rows of different age pass the repo_root filter and limit 1 returned
\* one.
C14_Witness ==
  /\ ret.op = "list"
  /\ ret.limit = 1
  /\ ret.f.repo_root # Absent
  /\ Len(ret.rows) = 1
  /\ Len(tbl) = 2
  /\ tbl[1].timestamp # tbl[2].timestamp
  /\ \A i \in 1..2 : Passes(tbl[i], ret.f, wall)

\* C15 (under SpecList): list_entries_since(last_id, ..) returns exactly the
\* rows with id > last_id that pass every supplied filter, by ascending id;
\* without filters that is all rows for last_id = 0, and the rows inserted
\* after the table's greatest id was last_id.
C15_ListEntriesSinceCursor ==
  ret.op = "since" =>
    LET r == ret.rows IN
    /\ \A j \in 1..Len(r) :
         /\ r[j].id \in 1..Len(tbl) /\ tbl[r[j].id] = r[j]
         /\ r[j].id > ret.last_id
         /\ Passes(r[j], ret.f, wall)
    /\ \A i \in 1..Len(tbl) :
         (tbl[i].id > ret.last_id /\ Passes(tbl[i], ret.f, wall)) => InRet(tbl[i])
    /\ \A i, j \in 1..Len(r) : i < j => r[i].id < r[j].id
    /\ (ret.f = NoFilter /\ ret.last_id = 0) => r = tbl
    /\ (ret.f = NoFilter /\ ret.last_id <= Len(tbl)) =>
         r = SubSeq(tbl, ret.last_id + 1, Len(tbl))

\* The cursor stood at id 1 and one row was inserted since, with an older
\* timestamp: the call returns that row.
C15_Witness ==
  /\ ret.op = "since"
  /\ ret.last_id = 1
  /\ ret.f = NoFilter
  /\ Len(tbl) = 2
  /\ tbl[2].timestamp < tbl[1].timestamp
  /\ ret.rows = << tbl[2] >>

(***************************************************************************)
(* The session resolver: session::get_ppid and its use in run.  The origin  *)
(* has pid 1 and its i-th ancestor pid i + 1; chain[i] is the name of the   *)
(* i-th ancestor, and top says what the parent of the last process is.      *)
(***************************************************************************)

\* for _ in 0..20, on the scale of MaxDepth ancestors
HOPS == 2

ProcNames == {"node", "Claude", "login", "zsh"}

\* name().to_string_lossy().to_lowercase()
ToLowercase(name) == IF name = "Claude" THEN "claude" ELSE name

\* name.contains(sub), for the lowercased names of ProcNames.
Contains(name, sub) == name = sub

\* Mutant of IsAssistant: login is on the list of the first pass.
IsAssistantOrLogin(name) ==
  \/ Contains(name, "node") \/ Contains(name, "claude")
  \/ Contains(name, "codex") \/ Contains(name, "gemini")
  \/ name = "login"

\* name.contains("node") || name.contains("claude") ||
\* name.contains("codex") || name.contains("gemini")
IsAssistant(name) ==
  \/ Contains(name, "node") \/ Contains(name, "claude")
  \/ Contains(name, "codex") \/ Contains(name, "gemini")

OriginPid == 1
Pid(i) == i + 1

\* Option<u32>: None, and a pid for Some(pid).
None == 0

RECURSIVE Chains(_)
Chains(n) ==
  IF n = 0 THEN { << >> }
  ELSE LET shorter == Chains(n - 1)
       IN  shorter \cup { Append(c, nm) : c \in {d \in shorter : Len(d) = n - 1},
                                          nm \in ProcNames }

\* What process.parent() of the last process of an ancestry comes to: no
\* parent; a parent pid that is not in the table ("dangling": system.process
\* of it is None); or the parent is a process of the ancestry itself, to
\* being its position (a cycle; position 0 is the origin).
Tops(c) ==
  {[kind |-> "none", to |-> 0], [kind |-> "dangling", to |-> 0]}
    \cup {[kind |-> "cycle", to |-> k] : k \in 0..Len(c)}

\* The name of the origin (the clog process itself).
OriginName == "clog"

NameAt(c, i) == IF i = 0 THEN OriginName ELSE c[i]

\* process.parent() of the process at position i of ancestry c with top t:
\* kind "proc" and the position of the parent when it is in the table, else
\* "none" or "dangling".
ParentOf(c, t, i) ==
  IF i < Len(c) THEN [kind |-> "proc", to |-> i + 1]
  ELSE IF t.kind = "cycle" THEN [kind |-> "proc", to |-> t.to]
  ELSE t

InitRes ==
  /\ chain \in Chains(MaxDepth)
  /\ top \in Tops(chain)
  /\ lookups = 0
  /\ rpc = "pass1"
  /\ hop = 0
  /\ at = 0
  /\ res = None
  /\ used = 0
  /\ warned = FALSE

\* The climbing loop with one turn more than HOPS.
ClimbOneMore(stop(_), next) ==
  IF hop = HOPS + 1
    THEN /\ rpc' = next
         /\ hop' = 0
         /\ at' = 0
         /\ UNCHANGED << res, lookups >>
  ELSE LET par == ParentOf(chain, top, at) IN
       /\ lookups' = lookups + 1
       /\ IF par.kind # "proc"
            THEN /\ res' = None
                 /\ rpc' = "returned"
                 /\ UNCHANGED << hop, at >>
          ELSE IF stop(ToLowercase(NameAt(chain, par.to)))
            THEN /\ res' = Pid(par.to)
                 /\ rpc' = "returned"
                 /\ UNCHANGED << hop, at >>
          ELSE /\ at' = par.to
               /\ hop' = hop + 1
               /\ UNCHANGED << rpc, res >>

\* One turn of a climbing loop that stops at a parent whose lowercased name
\* satisfies stop; after HOPS turns the loop ends and get_ppid goes on at
\* next.  process.parent()? returns None from get_ppid when the process has
\* no parent, and system.process(parent_pid)? when the parent pid is not in
\* the table.  lookups counts the calls of process.parent().
Climb(stop(_), next) ==
  IF hop = HOPS
    THEN /\ rpc' = next
         /\ hop' = 0
         /\ at' = 0
         /\ UNCHANGED << res, lookups >>
  ELSE LET par == ParentOf(chain, top, at) IN
       /\ lookups' = lookups + 1
       /\ IF par.kind # "proc"
            THEN /\ res' = None
                 /\ rpc' = "returned"
                 /\ UNCHANGED << hop, at >>
          ELSE IF stop(ToLowercase(NameAt(chain, par.to)))
            THEN /\ res' = Pid(par.to)
                 /\ rpc' = "returned"
                 /\ UNCHANGED << hop, at >>
          ELSE /\ at' = par.to
               /\ hop' = hop + 1
               /\ UNCHANGED << rpc, res >>

\* Mutant of Pass1: the first pass takes one turn more than HOPS.
Pass1OneMore ==
  /\ rpc = "pass1"
  /\ ClimbOneMore(IsAssistant, "pass2")
  /\ UNCHANGED << chain, top, used, warned >>

\* First pass: look for AI assistants.
Pass1 ==
  /\ rpc = "pass1"
  /\ Climb(IsAssistant, "pass2")
  /\ UNCHANGED << chain, top, used, warned >>

IsLogin(name) == name = "login"

\* Second pass: fallback to login if no AI assistant found.
Pass2 ==
  /\ rpc = "pass2"
  /\ Climb(IsLogin, "fallback")
  /\ UNCHANGED << chain, top, used, warned >>

\* Fallback to immediate parent if we can't find a target process.
Fallback ==
  /\ rpc = "fallback"
  /\ LET par == ParentOf(chain, top, 0)
     IN  res' = IF par.kind = "proc" THEN Pid(par.to)
                ELSE IF par.kind = "dangling" THEN Pid(Len(chain) + 1)
                ELSE None
  /\ lookups' = lookups + 1
  /\ rpc' = "returned"
  /\ UNCHANGED << chain, top, hop, at, used, warned >>

\* run: session::get_ppid().unwrap_or_else(|| { eprintln!("Warning: ..");
\* process::id() })
UsePpid ==
  /\ rpc = "returned"
  /\ used' = IF res = None THEN OriginPid ELSE res
  /\ warned' = (res = None)
  /\ rpc' = "used"
  /\ UNCHANGED << chain, top, hop, at, res, lookups >>

OtherThanRes == << schemaVars, sessVars, syncVars, listVars, devVars, httpVars, streamVars >>

NextRes ==
  \/ Pass1 /\ UNCHANGED OtherThanRes
  \/ Pass2 /\ UNCHANGED OtherThanRes
  \/ Fallback /\ UNCHANGED OtherThanRes
  \/ UsePpid /\ UNCHANGED OtherThanRes

InitSpecRes == InitRes /\ SchemaIdle /\ SessIdle /\ SyncIdle /\ ListIdle /\ DevIdle /\ HttpIdle /\ StreamIdle

SpecRes == InitSpecRes /\ [][NextRes]_vars

(***************************************************************************)
(* Claims about the session resolver.                                       *)
(***************************************************************************)

\* The positions, among the first HOPS ancestors, of the allow-listed hosts
\* and of the processes named login; and among all ancestors.
HostsNear == {i \in 1..Min(HOPS, Len(chain)) : chain[i] \in {"node", "Claude"}}
LoginsNear == {i \in 1..Min(HOPS, Len(chain)) : chain[i] = "login"}
HostsAll == {i \in 1..Len(chain) : chain[i] \in {"node", "Claude"}}
LoginsAll == {i \in 1..Len(chain) : chain[i] = "login"}

Nearest(S) == CHOOSE i \in S : \A j \in S : i <= j

\* C16 (under SpecRes): when an allow-listed host and a process named login
\* are both among the origin's first HOPS ancestors, get_ppid returns the pid
\* of the nearest allow-listed host, and run goes on with it.
C16_HostBeatsLogin ==
  (HostsNear # {} /\ LoginsNear # {}) =>
    /\ rpc \in {"returned", "used"} => res = Pid(Nearest(HostsNear))
    /\ rpc = "used" => (used = Pid(Nearest(HostsNear)) /\ ~warned)

\* login is the parent, the host the grandparent: the host's pid is used.
C16_Witness ==
  /\ rpc = "used"
  /\ Len(chain) >= 2
  /\ chain[1] = "login"
  /\ chain[2] = "Claude"
  /\ used = Pid(2)

\* C17 (under SpecRes): when no ancestor matches the allow-list and some
\* ancestor is named login, get_ppid returns the pid of the nearest ancestor
\* named login.
C17_LoginFallback ==
  (HostsAll = {} /\ LoginsAll # {} /\ rpc \in {"returned", "used"}) =>
    res = Pid(Nearest(LoginsAll))

\* C18 (under SpecRes): when neither an allow-listed host nor a process
\* named login is among the ancestors, run goes on with the pid of the
\* origin's parent if it has one, and with the origin's pid and a warning
\* only if it has none.
C18_ParentFallback ==
  (HostsAll = {} /\ LoginsAll = {} /\ rpc = "used") =>
    IF Len(chain) >= 1 THEN used = Pid(1) /\ ~warned
    ELSE used = OriginPid /\ warned

\* The names at which the first pass and the second pass stop.
AssistantNames == {nm \in ProcNames \cup {OriginName} : IsAssistant(ToLowercase(nm))}
LoginNames == {nm \in ProcNames \cup {OriginName} : IsLogin(ToLowercase(nm))}

\* A climbing loop of get_ppid as a function of the table: from position i
\* with n turns left, the position of the parent it stops at, -1 when it
\* returns None, -2 when its turns run out.
RECURSIVE ClimbFrom(_, _, _, _, _)
ClimbFrom(c, t, stops, i, n) ==
  IF n = 0 THEN -2
  ELSE LET par == ParentOf(c, t, i) IN
       IF par.kind # "proc" THEN -1
       ELSE IF NameAt(c, par.to) \in stops THEN par.to
       ELSE ClimbFrom(c, t, stops, par.to, n - 1)

\* get_ppid as a function of the table: the position of the process whose
\* pid it returns, -1 for None.
Resolve(c, t) ==
  LET first  == ClimbFrom(c, t, AssistantNames, 0, HOPS)
      second == ClimbFrom(c, t, LoginNames, 0, HOPS)
      par    == ParentOf(c, t, 0)
  IN  IF first # -2 THEN first
      ELSE IF second # -2 THEN second
      ELSE IF par.kind = "proc" THEN par.to
      ELSE IF par.kind = "dangling" THEN Len(c) + 1
      ELSE -1

\* The function and the steps of get_ppid come to the same result.
ResolveAgrees ==
  rpc \in {"returned", "used"} =>
    res = (IF Resolve(chain, top) = -1 THEN None ELSE Pid(Resolve(chain, top)))

\* C36 (under SpecRes): let H be an ancestor of the origin, among its first
\* HOPS, whose name matches the allow-list.  For every other origin below H,
\* whatever the wrappers between it and H (H among its first HOPS ancestors
\* too), get_ppid returns the process it returned for this origin.
C36_StableWithinSession ==
  rpc \in {"returned", "used"} =>
    \A i \in 1..Min(HOPS, Len(chain)) :
      IsAssistant(ToLowercase(chain[i])) =>
        \A w \in Chains(HOPS - 1) :
          LET other == w \o SubSeq(chain, i, Len(chain))
              r     == Resolve(other, [kind |-> "none", to |-> 0])
          IN  /\ r > Len(w)
              /\ res = Pid(i + (r - Len(w) - 1))

Plain(w) == \A k \in 1..Len(w) : ~IsAssistant(ToLowercase(w[k]))

\* What does hold under SpecRes: when no process between either origin and
\* H matches the allow-list, get_ppid returns H for both.
StableUnderPlainWrappers ==
  rpc \in {"returned", "used"} =>
    \A i \in 1..Min(HOPS, Len(chain)) :
      (IsAssistant(ToLowercase(chain[i])) /\ Plain(SubSeq(chain, 1, i - 1))) =>
        \A w \in {x \in Chains(HOPS - 1) : Plain(x)} :
          LET other == w \o SubSeq(chain, i, Len(chain))
              r     == Resolve(other, [kind |-> "none", to |-> 0])
          IN  r = Len(w) + 1 /\ res = Pid(i)

\* get_ppid runs on: every step of it that can be taken is taken.
ResRuns ==
  /\ WF_vars(Pass1 /\ UNCHANGED OtherThanRes)
  /\ WF_vars(Pass2 /\ UNCHANGED OtherThanRes)
  /\ WF_vars(Fallback /\ UNCHANGED OtherThanRes)
  /\ WF_vars(UsePpid /\ UNCHANGED OtherThanRes)

SpecResLive == InitSpecRes /\ [][NextRes]_vars /\ ResRuns

PlatformIds == {"m1", "m2"}

\* No platform identifier can be read.
NoPlatform == "<none>"

\* format!("fallback-{}", Ulid::new())
FallbackIds == {"fallback-1", "fallback-2"}

\* hash_device_id: base32 of the first 16 bytes of SHA-256(APP_SALT, raw).
HashDeviceId(raw) ==
  CASE raw = "m1" -> "H(m1)"
    [] raw = "m2" -> "H(m2)"
    [] raw = "fallback-1" -> "H(fallback-1)"
    [] raw = "fallback-2" -> "H(fallback-2)"

\* path.exists() is false.
NoFile == "<no file>"

\* The file as fs::write leaves it between creating and filling it.
EmptyFile == ""

\* id.trim(): the file holds base32 text or nothing, no white space.
Trim(content) == content

NoDeviceCall == [pc |-> "idle", saw |-> FALSE, id |-> "", out |-> ""]

InitDev ==
  /\ file = NoFile
  /\ platform \in PlatformIds \cup {NoPlatform}
  /\ dp = [p \in Procs |-> NoDeviceCall]

\* A process calls get_or_create_device_id.
StartDeviceCall(p) ==
  /\ dp[p].pc \in {"idle", "done"}
  /\ dp' = [dp EXCEPT ![p] = [NoDeviceCall EXCEPT !.pc = "check"]]
  /\ UNCHANGED << file, platform >>

\* Mutant of CheckExists: the result of path.exists() is not acted on.
CheckExistsIgnored(p) ==
  /\ dp[p].pc = "check"
  /\ dp' = [dp EXCEPT ![p].saw = (file # NoFile), ![p].pc = "derive"]
  /\ UNCHANGED << file, platform >>

\* if path.exists() { .. }
CheckExists(p) ==
  /\ dp[p].pc = "check"
  /\ dp' = [dp EXCEPT ![p].saw = (file # NoFile),
                       ![p].pc = IF file # NoFile THEN "read" ELSE "derive"]
  /\ UNCHANGED << file, platform >>

\* let id = fs::read_to_string(&path)?; return Ok(id.trim().to_string());
ReadStored(p) ==
  /\ dp[p].pc = "read"
  /\ dp' = [dp EXCEPT ![p].out = Trim(file), ![p].pc = "done"]
  /\ UNCHANGED << file, platform >>

\* let raw_id = get_platform_id()?; let device_id = hash_device_id(&raw_id);
Derive(p) ==
  /\ dp[p].pc = "derive"
  /\ \E raw \in IF platform # NoPlatform THEN {platform} ELSE FallbackIds :
       dp' = [dp EXCEPT ![p].id = HashDeviceId(raw), ![p].pc = "create"]
  /\ UNCHANGED << file, platform >>

\* fs::write(&path, &device_id): the file is created or truncated ..
WriteCreate(p) ==
  /\ dp[p].pc = "create"
  /\ file' = EmptyFile
  /\ dp' = [dp EXCEPT ![p].pc = "fill"]
  /\ UNCHANGED platform

\* .. and then filled; Ok(device_id).
WriteFill(p) ==
  /\ dp[p].pc = "fill"
  /\ file' = dp[p].id
  /\ dp' = [dp EXCEPT ![p].out = dp[p].id, ![p].pc = "done"]
  /\ UNCHANGED platform

\* The process is killed in the middle of the call.
DeviceCallKilled(p) ==
  /\ dp[p].pc \notin {"idle", "done"}
  /\ dp' = [dp EXCEPT ![p] = NoDeviceCall]
  /\ UNCHANGED << file, platform >>

\* The platform identifier changes, or can no longer be read.
PlatformChanges ==
  /\ platform' \in (PlatformIds \cup {NoPlatform}) \ {platform}
  /\ UNCHANGED << file, dp >>

OtherThanDev == << schemaVars, sessVars, syncVars, listVars, resVars, httpVars, streamVars >>

NextDev ==
  \/ \E p \in Procs : StartDeviceCall(p) /\ UNCHANGED OtherThanDev
  \/ \E p \in Procs : CheckExists(p) /\ UNCHANGED OtherThanDev
  \/ \E p \in Procs : ReadStored(p) /\ UNCHANGED OtherThanDev
  \/ \E p \in Procs : Derive(p) /\ UNCHANGED OtherThanDev
  \/ \E p \in Procs : WriteCreate(p) /\ UNCHANGED OtherThanDev
  \/ \E p \in Procs : WriteFill(p) /\ UNCHANGED OtherThanDev
  \/ \E p \in Procs : DeviceCallKilled(p) /\ UNCHANGED OtherThanDev
  \/ PlatformChanges /\ UNCHANGED OtherThanDev

InitSpecDev == InitDev /\ SchemaIdle /\ SessIdle /\ SyncIdle /\ ListIdle /\ ResIdle /\ HttpIdle /\ StreamIdle

SpecDev == InitSpecDev /\ [][NextDev]_vars

(***************************************************************************)
(* Claims about the device id.                                              *)
(***************************************************************************)

\* C19 (under SpecDev): a call that finds the device-id file in place takes
\* no step that changes the file or derives an id, and returns the content
\* of the file, whatever the platform identifier is by then; only a call
\* that found no file derives and writes.
C19_StoredIdIsAuthoritative ==
  [][\A p \in Procs :
       (dp'[p] # dp[p] /\ dp'[p].saw) =>
         /\ file' = file
         /\ dp'[p].pc \in {"read", "done"}
         /\ dp'[p].id = ""
         /\ dp'[p].pc = "done" => dp'[p].out = file]_vars

\* A call returned the stored id after the platform identifier had become
\* another than the one the file was derived from.
C19_Witness ==
  \E p \in Procs :
    /\ dp[p].pc = "done"
    /\ dp[p].saw
    /\ dp[p].out = file
    /\ file \in {"H(m1)", "H(m2)"}
    /\ platform \in PlatformIds
    /\ file # HashDeviceId(platform)

(***************************************************************************)
(* Streaming: handle_stream_entries, the initial fetch and the poll loop.  *)
(* The store is tbl and the clock wall of the listing model.               *)
(***************************************************************************)

\* The limit of the initial fetch, db.list_entries(10, ..), scaled down.
STREAM_LIMIT == 1

\* The entries logged while a stream runs, and the filters of a stream:
\* args.filter and args.today (repo_root and session_id are compared the way
\* name is).
StreamKinds == {e \in EntryKinds : e.repo_root = "/repo/a"}
StreamFilters == {f \in Filters : f.repo_root = Absent /\ f.session_id = Absent}

\* entries.reverse()
Reverse(s) == [k \in 1..Len(s) |-> s[Len(s) + 1 - k]]

Ids(rows) == [k \in 1..Len(rows) |-> rows[k].id]

\* id.max(last_id)
MaxOf(a, b) == IF a < b THEN b ELSE a

\* Mutant of InitialCursor: the initial fetch leaves last_id at 0.
InitialCursorZero(entries) == 0

\* let mut last_id = 0; for entry in entries { last_id = id.max(last_id) }
InitialCursor(entries) ==
  LET RECURSIVE Fold(_, _)
      Fold(rest, last_id) ==
        IF rest = << >> THEN last_id
        ELSE Fold(Tail(rest), MaxOf(Head(rest).id, last_id))
  IN  Fold(entries, 0)

InitStream ==
  /\ stpc = "start"
  /\ filt = NoFilter
  /\ lastId = 0
  /\ running = TRUE
  /\ newEntries = << >>
  /\ printed = << >>
  /\ base = 0

\* The poll loop and its Ctrl+C handler are in place.
StreamLoop == {"check", "query", "print", "sleep"}

\* handle_stream_entries up to the handler: the filters, the initial fetch
\* db.list_entries(10, ..)?, entries.reverse(), the prints.
StreamStart(f) ==
  /\ stpc = "start"
  /\ filt' = f
  /\ \E ok \in BOOLEAN :
       IF ~ok THEN stpc' = "err" /\ UNCHANGED << lastId, printed, base >>
       ELSE \E r \in ListEntriesResults(tbl, STREAM_LIMIT, f, wall) :
              LET entries == Reverse(r)
              IN  /\ printed' = Ids(entries)
                  /\ lastId' = InitialCursor(entries)
                  /\ base' = Len(tbl)
                  /\ stpc' = "handler"
  /\ UNCHANGED << running, newEntries, listVars >>

\* let running = Arc::new(AtomicBool::new(true)); ctrlc::set_handler(..)
SetHandler ==
  /\ stpc = "handler"
  /\ stpc' = "check"
  /\ UNCHANGED << filt, lastId, running, newEntries, printed, base, listVars >>

\* Ctrl+C before the handler is set: the default action ends the process.
StreamKilled ==
  /\ stpc \in {"start", "handler"}
  /\ stpc' = "killed"
  /\ UNCHANGED << filt, lastId, running, newEntries, printed, base, listVars >>

\* Ctrl+C with the handler set: running.store(false, SeqCst), on the
\* handler's thread.
Interrupt ==
  /\ stpc \in StreamLoop
  /\ running
  /\ running' = FALSE
  /\ UNCHANGED << stpc, filt, lastId, newEntries, printed, base, listVars >>

\* Mutant of LoopCheck: the loop does not look at the flag.
LoopCheckIgnoresFlag ==
  /\ stpc = "check"
  /\ stpc' = "query"
  /\ UNCHANGED << filt, lastId, running, newEntries, printed, base, listVars >>

\* while running.load(Ordering::SeqCst) { .. } Ok(())
LoopCheck ==
  /\ stpc = "check"
  /\ stpc' = IF running THEN "query" ELSE "done"
  /\ UNCHANGED << filt, lastId, running, newEntries, printed, base, listVars >>

\* let new_entries = db.list_entries_since(last_id, ..)?;
PollQuery ==
  /\ stpc = "query"
  /\ \E ok \in BOOLEAN :
       IF ~ok THEN stpc' = "err" /\ UNCHANGED newEntries
       ELSE LET new_entries == ListEntriesSince(tbl, lastId, filt, wall)
            IN  /\ newEntries' = new_entries
                /\ stpc' = IF new_entries = << >> THEN "sleep" ELSE "print"
  /\ UNCHANGED << filt, lastId, running, printed, base, listVars >>

\* One turn of for entry in &new_entries: last_id = last_id.max(id); println!
PrintEntry ==
  /\ stpc = "print"
  /\ lastId' = MaxOf(lastId, Head(newEntries).id)
  /\ printed' = Append(printed, Head(newEntries).id)
  /\ newEntries' = Tail(newEntries)
  /\ stpc' = IF Tail(newEntries) = << >> THEN "sleep" ELSE "print"
  /\ UNCHANGED << filt, running, base, listVars >>

\* thread::sleep(Duration::from_millis(500))
Sleep ==
  /\ stpc = "sleep"
  /\ stpc' = "check"
  /\ UNCHANGED << filt, lastId, running, newEntries, printed, base, listVars >>

\* Another invocation of clog logs a message: insert_log_entry.
StreamInsert ==
  /\ Len(tbl) < MaxTbl
  /\ \E e \in StreamKinds :
       tbl' = Append(tbl, [id |-> Len(tbl) + 1, timestamp |-> wall,
                           repo_root |-> e.repo_root, name |-> e.name,
                           session_id |-> e.session_id])
  /\ UNCHANGED << wall, ret, streamVars >>

OtherThanStream == << schemaVars, sessVars, syncVars, resVars, devVars, httpVars >>

\* The stream, the other invocations and a clock that only moves forward.
NextStreamLive ==
  \/ (\E f \in StreamFilters : StreamStart(f)) /\ UNCHANGED OtherThanStream
  \/ SetHandler /\ UNCHANGED OtherThanStream
  \/ StreamKilled /\ UNCHANGED OtherThanStream
  \/ Interrupt /\ UNCHANGED OtherThanStream
  \/ LoopCheck /\ UNCHANGED OtherThanStream
  \/ PollQuery /\ UNCHANGED OtherThanStream
  \/ PrintEntry /\ UNCHANGED OtherThanStream
  \/ Sleep /\ UNCHANGED OtherThanStream
  \/ StreamInsert /\ UNCHANGED OtherThanStream
  \/ ClockTick /\ UNCHANGED OtherThanList

\* The same, and a wall clock that may be set back.
NextStream ==
  \/ NextStreamLive
  \/ ClockSetBack /\ UNCHANGED OtherThanList

InitSpecStream == InitStream /\ InitList /\ SchemaIdle /\ SessIdle /\ SyncIdle /\ ResIdle /\ DevIdle /\ HttpIdle

SpecStream == InitSpecStream /\ [][NextStream]_vars

\* The main thread runs handle_stream_entries on: every step of it that can
\* be taken is taken (a query returns or fails, a sleep ends).  Nothing
\* obliges anybody to log a message or to press Ctrl+C.  The behaviours are
\* those in which the clock is not set back.
StreamRuns ==
  /\ WF_vars((\E f \in StreamFilters : StreamStart(f)) /\ UNCHANGED OtherThanStream)
  /\ WF_vars(SetHandler /\ UNCHANGED OtherThanStream)
  /\ WF_vars(LoopCheck /\ UNCHANGED OtherThanStream)
  /\ WF_vars(PollQuery /\ UNCHANGED OtherThanStream)
  /\ WF_vars(PrintEntry /\ UNCHANGED OtherThanStream)
  /\ WF_vars(Sleep /\ UNCHANGED OtherThanStream)

SpecStreamLive == InitSpecStream /\ [][NextStreamLive]_vars /\ StreamRuns

PrintedIds == {printed[k] : k \in 1..Len(printed)}

\* C26: last_id never decreases and is the greatest id printed so far (0
\* before anything is printed), and no entry is printed twice, over the
\* initial fetch and all polls.
C26_CursorAndNoDuplicates ==
  /\ [][lastId' >= lastId]_vars
  /\ [](/\ \A k \in 1..Len(printed) : printed[k] <= lastId
        /\ lastId = 0 \/ lastId \in PrintedIds
        /\ \A j, k \in 1..Len(printed) : printed[j] = printed[k] => j = k)

\* An entry was printed by the initial fetch and a later one by a poll.
C26_Witness ==
  /\ Len(printed) = 2
  /\ printed[1] <= base
  /\ printed[2] > base
  /\ lastId = printed[2]
  /\ stpc = "sleep"

\* An entry logged after the initial fetch that passes the stream's filters
\* (date(timestamp) = date('now') taken when the entry is logged).
LoggedForStream(i) ==
  /\ stpc \in StreamLoop
  /\ i \in (base + 1)..Len(tbl)
  /\ Matches(tbl[i], filt, tbl[i].timestamp)

\* C27: while the stream is not cancelled and no query fails, every entry
\* logged after the initial fetch that passes the stream's filters is
\* eventually printed, and the polls print in ascending order of id.
C27_NewEntriesPrinted ==
  /\ \A i \in 1..MaxTbl :
       LoggedForStream(i) ~> (i \in PrintedIds \/ ~running \/ stpc = "err")
  /\ [](\A j, k \in 1..Len(printed) :
          (j < k /\ printed[j] > base /\ printed[k] > base) => printed[j] < printed[k])

C33_PollsPrintOnlyNew ==
  [][(/\ stpc = "print"
      /\ printed' # printed
      /\ ~filt.today_only
      /\ \A j, k \in 1..Len(tbl) : tbl[j].timestamp = tbl[k].timestamp => j = k)
       => printed'[Len(printed')] > base]_vars

(***************************************************************************)
(* Sync over the HTTP transport: the retry policy of a batch.  The client  *)
(* for POST {server_url}/v1/events/batch is not among the source files     *)
(* (credentials.rs declares its Credentials {server_url, token}); it is    *)
(* modelled from sections 4.4 and 6 of the specification.                  *)
(***************************************************************************)

\* "starting at 1000 ms", "capped at 30000 ms", "up to 5 attempts"
INITIAL_BACKOFF_MS == 1000
MAX_BACKOFF_MS == 30000
MAX_ATTEMPTS == 5

\* The answers to one POST of a batch: success, a 4xx-equivalent, a
\* 5xx-equivalent, no answer.
Replies == {"success", "client_error", "server_error", "network_failure"}

\* "server-error/network failure (retryable)"
Retryable(reply) == reply \in {"server_error", "network_failure"}

\* Mutant of NextDelay: the delay grows by the initial delay, not twofold.
NextDelayLinear(d) ==
  IF d + INITIAL_BACKOFF_MS > MAX_BACKOFF_MS THEN MAX_BACKOFF_MS
  ELSE d + INITIAL_BACKOFF_MS

\* "doubling each attempt, capped at 30000 ms"
NextDelay(d) == IF 2 * d > MAX_BACKOFF_MS THEN MAX_BACKOFF_MS ELSE 2 * d

InitHttp == HttpIdle

HttpStopped == {"idle", "ok", "fatal", "aborted"}

\* sync_push over HTTP with n batches of unsynced entries to send.
HttpPush(n) ==
  /\ hpc \in HttpStopped
  /\ hpc' = "send"
  /\ batches' = n
  /\ attempt' = 1
  /\ delay' = INITIAL_BACKOFF_MS
  /\ waits' = << >>
  /\ tries' = << >>

\* One POST of the current batch and the classification of its answer.
HttpSend ==
  /\ hpc = "send"
  /\ \E reply \in Replies :
       /\ tries' = Append(tries, reply)
       /\ IF reply = "success"
          THEN /\ batches' = batches - 1
               /\ hpc' = IF batches = 1 THEN "ok" ELSE "next"
          ELSE /\ batches' = batches
               /\ hpc' = IF ~Retryable(reply) THEN "aborted"
                         ELSE IF attempt < MAX_ATTEMPTS THEN "wait"
                         ELSE "fatal"
  /\ UNCHANGED << attempt, delay, waits >>

\* The sleep before a retry, then the next attempt with the delay doubled.
HttpBackoff ==
  /\ hpc = "wait"
  /\ waits' = Append(waits, delay)
  /\ delay' = NextDelay(delay)
  /\ attempt' = attempt + 1
  /\ hpc' = "send"
  /\ UNCHANGED << batches, tries >>

\* The loop turns to the next batch: a new retry budget.
HttpNextBatch ==
  /\ hpc = "next"
  /\ hpc' = "send"
  /\ attempt' = 1
  /\ delay' = INITIAL_BACKOFF_MS
  /\ waits' = << >>
  /\ tries' = << >>
  /\ UNCHANGED batches

OtherThanHttp == << schemaVars, sessVars, syncVars, listVars, resVars, devVars, streamVars >>

NextHttp ==
  \/ (\E n \in 1..MaxBatches : HttpPush(n)) /\ UNCHANGED OtherThanHttp
  \/ HttpSend /\ UNCHANGED OtherThanHttp
  \/ HttpBackoff /\ UNCHANGED OtherThanHttp
  \/ HttpNextBatch /\ UNCHANGED OtherThanHttp

InitSpecHttp == InitHttp /\ SchemaIdle /\ SessIdle /\ SyncIdle /\ ListIdle /\ ResIdle /\ DevIdle /\ StreamIdle

SpecHttp == InitSpecHttp /\ [][NextHttp]_vars

RECURSIVE Pow2(_)
Pow2(k) == IF k = 0 THEN 1 ELSE 2 * Pow2(k - 1)

\* C25: over the HTTP transport the k-th retry of a batch is made after
\* min(1000 * 2^(k-1), 30000) ms; a batch is attempted at most 5 times, a
\* fatal end comes after 5 retryable failures of one batch and no sooner,
\* and a client error ends the push at once: it is the last attempt made.
C25_HttpBackoff ==
  /\ [](/\ \A k \in 1..Len(waits) :
             /\ waits[k] = Min(INITIAL_BACKOFF_MS * Pow2(k - 1), MAX_BACKOFF_MS)
             /\ waits[k] <= MAX_BACKOFF_MS
        /\ Len(tries) <= MAX_ATTEMPTS
        /\ hpc = "fatal" <=>
             (Len(tries) = MAX_ATTEMPTS /\ \A k \in 1..Len(tries) : Retryable(tries[k]))
        /\ hpc = "aborted" <=>
             (tries # << >> /\ tries[Len(tries)] = "client_error")
        /\ \A k \in 1..Len(tries) :
             (tries[k] = "client_error" \/ tries[k] = "success") => k = Len(tries)
        /\ hpc = "wait" => Len(waits) = Len(tries) - 1)
  /\ [][(hpc \in {"fatal", "aborted"} /\ hpc' = "send") => Len(tries') = 0]_vars

\* The second of two batches failed fatally after four retries.
C25_Witness ==
  /\ hpc = "fatal"
  /\ waits = << 1000, 2000, 4000, 8000 >>
  /\ tries[1] # tries[2]
  /\ batches = 1

(***************************************************************************)
(* Sync: SyncClient::sync_push on the direct-store transport.               *)
(*                                                                          *)
(* local holds the device's log_entries rows (event_id, synced_at), remote  *)
(* the rows of the remote log_entries table as a sequence of event_ids, so  *)
(* that a duplicate row is a state the model can be in.  The pass runs one  *)
(* statement per step; other invocations of clog insert entries meanwhile.  *)
(***************************************************************************)

\* const BATCH_SIZE: usize = 100, on the scale of MaxLocal rows
BATCH_SIZE == 2

\* What a statement sent to the remote comes to: "ok" (executed, reply
\* received), "failed" (not executed: rejected, or the request was lost),
\* "lost_reply" (executed, but the client got an error instead of the reply).
Outcomes == {"ok", "failed", "lost_reply"}

RemoteIds(rows) == {rows[k] : k \in 1..Len(rows)}

\* INSERT INTO log_entries .. without the ON CONFLICT clause: a unique
\* violation is an error.
InsertRemote(rows, event_id) ==
  IF event_id \in RemoteIds(rows) THEN [rows |-> rows, res |-> "Err"]
  ELSE [rows |-> Append(rows, event_id), res |-> "Ok"]

\* INSERT INTO log_entries .. ON CONFLICT (event_id) DO NOTHING, as the
\* remote executes it.
UpsertRemote(rows, event_id) ==
  IF event_id \in RemoteIds(rows) THEN [rows |-> rows, res |-> "Ok"]
  ELSE [rows |-> Append(rows, event_id), res |-> "Ok"]

\* synced_ids after a match that takes every result for a success.
PushSyncedAlways(ids, event_id, result) == Append(ids, event_id)

\* match result { Ok(_) => synced_ids.push(event_id), Err(e) => log }
PushSynced(ids, event_id, result) ==
  IF result = "Ok" THEN Append(ids, event_id) ELSE ids

Unsynced(row) == ~row.synced_at

\* get_unsynced_entries(batch_size): the rows not yet synced, by local id,
\* at most batch_size of them.
GetUnsyncedEntries(rows, batch_size) ==
  LET u == SelectSeq(rows, Unsynced)
  IN  SubSeq(u, 1, IF Len(u) < batch_size THEN Len(u) ELSE batch_size)

\* mark_entries_synced(event_ids): sets synced_at on the rows of those ids.
MarkEntriesSynced(rows, ids) ==
  [i \in 1..Len(rows) |->
     IF rows[i].event_id \in RemoteIds(ids)
     THEN [rows[i] EXCEPT !.synced_at = TRUE] ELSE rows[i]]

LocalRow(i) == [id |-> i, event_id |-> i, synced_at |-> FALSE]

\* A migrated store with 0..MaxLocal entries, none synced yet, and an empty
\* remote.
InitSync ==
  /\ \E n \in 0..MaxLocal : local = [i \in 1..n |-> LocalRow(i)]
  /\ remote = << >>
  /\ lastSyncAt = 0
  /\ spc = "idle"
  /\ batch = << >>
  /\ bi = 1
  /\ syncedIds = << >>
  /\ sent = << >>
  /\ pushOnly = TRUE
  /\ failedIds = {}

SyncStopped == {"idle", "ok", "err"}

\* Mutant of SyncPush: the push_only flag is not looked at.
SyncPushAnyway(push_only) ==
  /\ spc \in SyncStopped
  /\ pushOnly' = push_only
  /\ spc' = "connect"
  /\ batch' = << >>
  /\ bi' = 1
  /\ syncedIds' = << >>
  /\ failedIds' = {}
  /\ UNCHANGED << local, remote, lastSyncAt, sent >>

\* sync_push(db, push_only)
SyncPush(push_only) ==
  /\ spc \in SyncStopped
  /\ pushOnly' = push_only
  /\ spc' = IF push_only THEN "connect" ELSE "err"
  /\ batch' = << >>
  /\ bi' = 1
  /\ syncedIds' = << >>
  /\ failedIds' = {}
  /\ UNCHANGED << local, remote, lastSyncAt, sent >>

\* get_credentials, tokio_postgres::connect, ensure_schema: each may fail.
Connect ==
  /\ spc = "connect"
  /\ \E ok \in BOOLEAN : spc' = IF ok THEN "fetch" ELSE "err"
  /\ UNCHANGED << local, remote, lastSyncAt, batch, bi, syncedIds, sent, pushOnly, failedIds >>

\* let entries = db.get_unsynced_entries(BATCH_SIZE)?; empty: break, Ok(())
Fetch ==
  /\ spc = "fetch"
  /\ \E ok \in BOOLEAN :
       IF ~ok THEN spc' = "err" /\ UNCHANGED << batch, bi, syncedIds >>
       ELSE LET entries == GetUnsyncedEntries(local, BATCH_SIZE)
            IN  /\ batch' = entries
                /\ bi' = 1
                /\ syncedIds' = << >>
                /\ spc' = IF entries = << >> THEN "ok" ELSE "upsert"
  /\ UNCHANGED << local, remote, lastSyncAt, sent, pushOnly, failedIds >>

\* One turn of the for loop: the entry's upsert and the match on its result.
UpsertEntry ==
  /\ spc = "upsert"
  /\ Len(sent) < MaxSends
  /\ LET event_id == batch[bi].event_id
     IN  IF event_id = NULL
         THEN /\ spc' = "err"
              /\ UNCHANGED << remote, syncedIds, bi, sent, failedIds >>
         ELSE \E o \in Outcomes :
                LET done   == UpsertRemote(remote, event_id)
                    result == IF o = "ok" THEN done.res ELSE "Err"
                IN  /\ remote' = IF o = "failed" THEN remote ELSE done.rows
                    /\ syncedIds' = PushSynced(syncedIds, event_id, result)
                    /\ sent' = Append(sent,
                         [event_id |-> event_id, outcome |-> o, result |-> result,
                          dup |-> event_id \in RemoteIds(remote),
                          changed |-> remote' # remote])
                    /\ bi' = bi + 1
                    /\ failedIds' = IF result = "Err" THEN failedIds \cup {event_id}
                                    ELSE failedIds
                    /\ spc' = IF bi = Len(batch) THEN "mark" ELSE "upsert"
  /\ UNCHANGED << local, lastSyncAt, batch, pushOnly >>

\* Mutant of Mark: the whole batch is marked, not the ids that were pushed
\* to synced_ids.
MarkWholeBatch ==
  /\ spc = "mark"
  /\ IF syncedIds = << >> THEN spc' = "state" /\ UNCHANGED local
     ELSE \E ok \in BOOLEAN :
            IF ok THEN /\ local' = MarkEntriesSynced(local,
                                     [k \in 1..Len(batch) |-> batch[k].event_id])
                       /\ spc' = "state"
            ELSE spc' = "err" /\ UNCHANGED local
  /\ UNCHANGED << remote, lastSyncAt, batch, bi, syncedIds, sent, pushOnly, failedIds >>

\* Mutant of Mark: a failed mark_entries_synced takes back the marks of
\* earlier batches.
MarkRollsBack ==
  /\ spc = "mark"
  /\ IF syncedIds = << >> THEN spc' = "state" /\ UNCHANGED local
     ELSE \E ok \in BOOLEAN :
            IF ok THEN local' = MarkEntriesSynced(local, syncedIds) /\ spc' = "state"
            ELSE /\ spc' = "err"
                 /\ local' = [i \in 1..Len(local) |->
                                [local[i] EXCEPT !.synced_at = FALSE]]
  /\ UNCHANGED << remote, lastSyncAt, batch, bi, syncedIds, sent, pushOnly, failedIds >>

\* if !synced_ids.is_empty() { db.mark_entries_synced(&synced_ids)?; }
Mark ==
  /\ spc = "mark"
  /\ IF syncedIds = << >> THEN spc' = "state" /\ UNCHANGED local
     ELSE \E ok \in BOOLEAN :
            IF ok THEN local' = MarkEntriesSynced(local, syncedIds) /\ spc' = "state"
            ELSE spc' = "err" /\ UNCHANGED local
  /\ UNCHANGED << remote, lastSyncAt, batch, bi, syncedIds, sent, pushOnly, failedIds >>

\* CURRENT_TIMESTAMP of the remote store, counted in writes of sync_state and
\* saturating at MaxSyncStamp.
NextStamp(stamp) == IF stamp < MaxSyncStamp THEN stamp + 1 ELSE stamp

\* Mutant of WriteSyncState: the pass returns Ok after its first batch.
WriteSyncStateOnce ==
  /\ spc = "state"
  /\ \E o \in Outcomes :
       /\ lastSyncAt' = IF o = "failed" THEN lastSyncAt ELSE NextStamp(lastSyncAt)
       /\ spc' = IF o = "ok" THEN "ok" ELSE "err"
  /\ UNCHANGED << local, remote, batch, bi, syncedIds, sent, pushOnly, failedIds >>

\* INSERT INTO sync_state .. ON CONFLICT (device_id) DO UPDATE SET
\* last_sync_at = CURRENT_TIMESTAMP, then the next turn of the loop.
WriteSyncState ==
  /\ spc = "state"
  /\ \E o \in Outcomes :
       /\ lastSyncAt' = IF o = "failed" THEN lastSyncAt ELSE NextStamp(lastSyncAt)
       /\ spc' = IF o = "ok" THEN "fetch" ELSE "err"
  /\ UNCHANGED << local, remote, batch, bi, syncedIds, sent, pushOnly, failedIds >>

\* The process is killed in the middle of a pass.
SyncKilled ==
  /\ spc \notin SyncStopped
  /\ spc' = "idle"
  /\ UNCHANGED << local, remote, lastSyncAt, batch, bi, syncedIds, sent, pushOnly, failedIds >>

\* Another invocation of clog logs a message: insert_log_entry.
LocalInsert ==
  /\ Len(local) < MaxLocal
  /\ local' = Append(local, LocalRow(Len(local) + 1))
  /\ UNCHANGED << remote, lastSyncAt, spc, batch, bi, syncedIds, sent, pushOnly, failedIds >>

OtherThanSync == << schemaVars, sessVars, listVars, resVars, devVars, httpVars, streamVars >>

NextSync ==
  \/ (\E push_only \in BOOLEAN : SyncPush(push_only)) /\ UNCHANGED OtherThanSync
  \/ Connect /\ UNCHANGED OtherThanSync
  \/ Fetch /\ UNCHANGED OtherThanSync
  \/ UpsertEntry /\ UNCHANGED OtherThanSync
  \/ Mark /\ UNCHANGED OtherThanSync
  \/ WriteSyncState /\ UNCHANGED OtherThanSync
  \/ SyncKilled /\ UNCHANGED OtherThanSync
  \/ LocalInsert /\ UNCHANGED OtherThanSync

InitSpecSync == InitSync /\ SchemaIdle /\ SessIdle /\ ListIdle /\ ResIdle /\ DevIdle /\ HttpIdle /\ StreamIdle

SpecSync == InitSpecSync /\ [][NextSync]_vars

(***************************************************************************)
(* Claims about sync.                                                       *)
(***************************************************************************)

NoDupRemote == \A j, k \in 1..Len(remote) : remote[j] = remote[k] => j = k

\* The pass with its statements to the remote not recorded in sent, so that a
\* pass of any length is followed: the same turn of the for loop as
\* UpsertEntry.
UpsertEntryUnlogged ==
  /\ spc = "upsert"
  /\ LET event_id == batch[bi].event_id
     IN  IF event_id = NULL
         THEN /\ spc' = "err"
              /\ UNCHANGED << remote, syncedIds, bi, failedIds >>
         ELSE \E o \in Outcomes :
                LET done   == UpsertRemote(remote, event_id)
                    result == IF o = "ok" THEN done.res ELSE "Err"
                IN  /\ remote' = IF o = "failed" THEN remote ELSE done.rows
                    /\ syncedIds' = PushSynced(syncedIds, event_id, result)
                    /\ bi' = bi + 1
                    /\ failedIds' = IF result = "Err" THEN failedIds \cup {event_id}
                                    ELSE failedIds
                    /\ spc' = IF bi = Len(batch) THEN "mark" ELSE "upsert"
  /\ UNCHANGED << local, lastSyncAt, batch, sent, pushOnly >>

NextSyncLive ==
  \/ (\E push_only \in BOOLEAN : SyncPush(push_only)) /\ UNCHANGED OtherThanSync
  \/ Connect /\ UNCHANGED OtherThanSync
  \/ Fetch /\ UNCHANGED OtherThanSync
  \/ UpsertEntryUnlogged /\ UNCHANGED OtherThanSync
  \/ Mark /\ UNCHANGED OtherThanSync
  \/ WriteSyncState /\ UNCHANGED OtherThanSync
  \/ SyncKilled /\ UNCHANGED OtherThanSync
  \/ LocalInsert /\ UNCHANGED OtherThanSync

\* rt.block_on runs the pass to its end: every statement and every await of
\* a pass in progress is eventually executed (each request to the remote is
\* answered or fails).  Nothing obliges a user to start a pass, to kill one,
\* or to log a message.
PassRuns ==
  /\ WF_vars(Connect /\ UNCHANGED OtherThanSync)
  /\ WF_vars(Fetch /\ UNCHANGED OtherThanSync)
  /\ WF_vars(UpsertEntryUnlogged /\ UNCHANGED OtherThanSync)
  /\ WF_vars(Mark /\ UNCHANGED OtherThanSync)
  /\ WF_vars(WriteSyncState /\ UNCHANGED OtherThanSync)

SpecSyncLive == InitSpecSync /\ [][NextSyncLive]_vars /\ PassRuns

\* C1: however often the same local entry is sent to the remote, the remote
\* log_entries table holds one row per event_id, and a push of an event_id
\* the remote already holds changes nothing there and, when it is executed
\* and its reply received, is reported as Ok.
C1_PushIdempotent ==
  /\ NoDupRemote
  /\ \A k \in 1..Len(sent) :
       sent[k].dup => /\ ~sent[k].changed
                      /\ (sent[k].outcome = "ok" => sent[k].result = "Ok")

\* An entry sent twice, the second time as a duplicate that was executed.
C1_Witness ==
  \E j, k \in 1..Len(sent) :
    /\ j < k
    /\ sent[j].event_id = sent[k].event_id
    /\ sent[k].dup
    /\ sent[k].outcome = "ok"
    /\ Len(remote) >= 2

\* C2: every local entry whose synced_at is set has a remote row with the
\* same event_id and an upsert of its own that returned Ok; so has every id
\* in synced_ids.
C2_SyncedImpliesRemote ==
  /\ \A i \in 1..Len(local) :
       local[i].synced_at =>
         /\ local[i].event_id \in RemoteIds(remote)
         /\ \E k \in 1..Len(sent) :
              sent[k].event_id = local[i].event_id /\ sent[k].result = "Ok"
  /\ \A j \in 1..Len(syncedIds) :
       \E k \in 1..Len(sent) :
         sent[k].event_id = syncedIds[j] /\ sent[k].result = "Ok"

\* A batch in which one upsert failed and one succeeded, marked: the failed
\* entry is unsynced, the other synced.
C2_Witness ==
  /\ spc = "state"
  /\ \E i, j \in 1..Len(local) :
       /\ local[i].synced_at
       /\ ~local[j].synced_at
       /\ \E k \in 1..Len(sent) :
            sent[k].event_id = local[j].event_id /\ sent[k].outcome = "failed"

\* C20: a call sync_push(push_only = false) ends in an error at once and
\* changes neither the local rows, nor the remote rows, nor the remote
\* last_sync_at, and sends nothing; no step of a pass follows it (other
\* invocations of clog may still log entries).
C20_PullNotImplemented ==
  /\ [](~pushOnly => spc = "err")
  /\ [][(~pushOnly' /\ ~LocalInsert) =>
          /\ local' = local
          /\ remote' = remote
          /\ lastSyncAt' = lastSyncAt
          /\ sent' = sent]_vars

\* sync_push(false) was called on a device with unsynced entries, after a
\* pass that had pushed some.
C20_Witness ==
  /\ ~pushOnly
  /\ spc = "err"
  /\ Len(remote) >= 1
  /\ lastSyncAt >= 1
  /\ \E i \in 1..Len(local) : ~local[i].synced_at

\* C21: a pass returns Ok only out of a fetch, and at that moment no local
\* entry is unsynced; every batch a pass fetched holds at most BATCH_SIZE
\* entries.
C21_OkOnlyWhenDrained ==
  /\ [](Len(batch) <= BATCH_SIZE)
  /\ [][(spc # "ok" /\ spc' = "ok") =>
          /\ spc = "fetch"
          /\ GetUnsyncedEntries(local', BATCH_SIZE) = << >>
          /\ \A i \in 1..Len(local') : local'[i].synced_at]_vars

\* A pass that needed more than one batch returned Ok.
C21_Witness ==
  /\ spc = "ok"
  /\ Len(local) > BATCH_SIZE
  /\ lastSyncAt >= 2
  /\ \A i \in 1..Len(local) : local[i].synced_at

\* C22: every pass that was started eventually stops: it returns Ok or an
\* error (or the process is killed), whatever the remote answers; an entry
\* whose upsert fails every time is not retried forever.
C22_PassTerminates == (spc = "connect") ~> (spc \in SyncStopped)

\* C23: a mark once set stays set, also across a pass that ends in an
\* error; the step on which a pass aborts changes no local row and no remote
\* row; and an entry the remote holds that is not marked locally is among
\* the entries the fetches of the next pass return, so that every local
\* entry is at the remote or still to be fetched.
C23_AbortKeepsProgress ==
  /\ [][/\ Len(local') >= Len(local)
        /\ \A i \in 1..Len(local) : local[i].synced_at => local'[i].synced_at]_vars
  /\ [][(spc # "err" /\ spc' = "err") => local' = local /\ remote' = remote]_vars
  /\ [](\A i \in 1..Len(local) :
          LET pending == GetUnsyncedEntries(local, Len(local))
          IN  /\ (local[i].event_id \in RemoteIds(remote) /\ ~local[i].synced_at)
                   => \E k \in 1..Len(pending) : pending[k] = local[i]
              /\ local[i].event_id \in RemoteIds(remote)
                   \/ \E k \in 1..Len(pending) : pending[k] = local[i])

\* A pass marked its first batch, the remote accepted an entry of the second
\* batch, and the pass then aborted before that entry was marked.
C23_Witness ==
  /\ spc = "err"
  /\ pushOnly
  /\ \E i, j \in 1..Len(local) :
       /\ local[i].synced_at
       /\ ~local[j].synced_at
       /\ local[j].event_id \in RemoteIds(remote)

\* C24: the call mark_entries_synced(&synced_ids) of a pass sets synced_at
\* on exactly the local rows whose event_id is in synced_ids: the rows marked
\* after it are those marked before it and those, no row is added or
\* removed, and id and event_id of every row are as before; marking the same
\* ids again changes nothing.
C24_MarkExactlyIds ==
  [][(spc = "mark" /\ spc' = "state" /\ syncedIds # << >>) =>
       LET ids == {syncedIds[k] : k \in 1..Len(syncedIds)}
       IN  /\ Len(local') = Len(local)
           /\ \A i \in 1..Len(local) :
                /\ local'[i].id = local[i].id
                /\ local'[i].event_id = local[i].event_id
                /\ local'[i].synced_at
                     = (local[i].synced_at \/ local[i].event_id \in ids)
           /\ MarkEntriesSynced(local', syncedIds) = local']_vars

\* mark_entries_synced has marked one entry of a batch of two; an entry of
\* an earlier batch was marked before, the other entry of this batch is not.
C24_Witness ==
  /\ spc = "state"
  /\ Len(syncedIds) = 1
  /\ Len(batch) = 2
  /\ \E i, j, k \in 1..Len(local) :
       /\ local[i].synced_at /\ local[i].event_id = syncedIds[1]
       /\ local[j].synced_at /\ local[j].event_id # syncedIds[1]
       /\ ~local[k].synced_at
       /\ \E b \in 1..Len(batch) : batch[b].event_id = local[k].event_id

\* C29: while a store is initialised its version stamp never decreases, and
\* a store that starts as a fresh install (version 0, no table) is never
\* stamped 1 or 2.
C29_StampNeverDecreases ==
  /\ [][disk'.version >= disk.version]_vars
  /\ []((origin.version = 0 /\ ~origin.le) => disk.version \in {0, CURRENT_VERSION})

\* C30: within one pass an entry whose upsert failed is not sent to the
\* remote again, and after an upsert, failed or not, the entries left in the
\* batch are attempted.
C30_FailedNotResentInPass ==
  /\ [][sent' # sent => sent'[Len(sent')].event_id \notin failedIds]_vars
  /\ [][(sent' # sent /\ bi < Len(batch)) => (spc' = "upsert" /\ bi' = bi + 1)]_vars

\* C31: the remote last_sync_at of the device is written only at the end of
\* a batch of which at least one entry was upserted with success: a batch in
\* which every upsert failed leaves it as it was.
C31_WatermarkOnlyAfterSuccess ==
  [][lastSyncAt' # lastSyncAt => syncedIds # << >>]_vars

====
